---------------------------- MODULE Spec2Model ----------------------------
(***************************************************************************)
(* go-clipsync: the HTTP chunked-poll transport (internal/net/poll.go),    *)
(* its helpers (internal/net/client.go), the chunk codec they share and    *)
(* the dedup key of a Snapshot (QuickKey).                                 *)
(*                                                                         *)
(* The specifications, over one set of variables:                          *)
(*   SpecCodec     the slicing loop of Send and the index-keyed assembly   *)
(*                 of state.assemble, on payloads and part sizes from      *)
(*                 bounded sets;                                           *)
(*   SpecSend      httpClient.Send / postChunkWithRetry against a relay    *)
(*                 that answers each POST with 2xx, a non-2xx status or a  *)
(*                 transport error;                                        *)
(*   SpecPoll      httpClient.Poll as written: the discover response is    *)
(*                 read by json.Decode into discoverResp, whose fields are *)
(*                 unexported and therefore stay at their zero values;     *)
(*   SpecPollBody  the loop body of Poll (new-session test, fetch loop,    *)
(*                 assembly, origin filter, reset) on the discover result  *)
(*                 {cid, total, have} that the protocol document defines.  *)
(*                 On Poll's own variables (pPc, current, meta, pK, pSnap, *)
(*                 out) every behaviour of SpecPoll is a behaviour of      *)
(*                 SpecPollBody in which the relay holds no session, so an *)
(*                 invariant of SpecPollBody over these variables is an    *)
(*                 invariant of the code;                                  *)
(*   SpecPollBodyFair  SpecPollBody with the goroutine of Poll scheduled;  *)
(*   SpecQuick     successive calls of QuickKey, the range loop over the   *)
(*                 items taken one Write at a time;                        *)
(*   SpecAuth      newShared and buildAuthHeader on words of WordBits      *)
(*                 bits.                                                   *)
(***************************************************************************)
EXTENDS Integers, Sequences, FiniteSets, TLC

VARIABLES
    \* ---- chunk codec (SpecCodec)
    cPc,        \* "idle" | "split" | "assembled"
    cPayload,   \* the payload handed to the slicing loop
    cSize,      \* the part size used
    cChunks,    \* chunks [][]byte as built by the slicing loop
    cParts,     \* state.parts : map[int][]byte of the receiver
    cTotal,     \* state.total
    cFull,      \* `full` of state.assemble
    cArrived,   \* history: the indices in their order of arrival
    \* ---- Send (SpecSend)
    sPc,        \* "idle" | "slice" | "post" | "backoff" | "done"
    sLen,       \* len(body)
    sI,         \* i of the slicing loop
    sCid,       \* cid := randomID(8)
    sIdx,       \* idx of the range loop in Send
    sRetry,     \* retry of the loop in postChunkWithRetry
    sDelay,     \* delay (nanoseconds)
    sLastErr,   \* lastErr
    sResult,    \* what Send returned: "none" | "nil" | an error
    sReq,       \* the POST in flight, NoReq when there is none
    sChunks,    \* chunks, as the bounds of the slices of body
    sAcked,     \* number of chunks that received a 2xx response
    sPosts,     \* number of POSTs issued by this Send
    sFailed,    \* number of POSTs of this Send that failed
    sTries,     \* number of POSTs issued for the chunk sIdx
    sFirst,     \* history: the first POST of this Send
    sSlept,     \* history: the sleep taken by the step just made, 0 if none
    \* ---- Poll (SpecPoll, SpecPollBody)
    ctxDone,    \* ctx has been cancelled
    pPc,        \* "top" | "discover" | "fetch" | "emit" | "sleep" | "returned"
    current,    \* var current state
    meta,       \* the discoverResp of this iteration
    pK,         \* position of the range loop over meta.have (1-based)
    pSnap,      \* the Snapshot Poll is handing to out
    out,        \* the channel out, as its buffer
    relay,      \* the session the relay holds
    pAdv,       \* history: the relay's session when discover was answered
    pFetchFail, \* history: a fetch of this iteration failed
    pEmitIter,  \* history: this iteration put a Snapshot on out
    pLastAsm,   \* history: the result of current.assemble() in this iteration
    pEmits,     \* history: per cid, how often its Snapshot was put on out since that
                \* of another session was (up to MaxCount)
    pSrc,       \* history: per held index, the session its part was served from
    pFailed,    \* history: the indices of the tracked session whose fetch failed and
                \* that were not held before the last step of the range loop
    pLast,      \* history: the last step Poll took, with the index it concerned
    \* ---- QuickKey (SpecQuick)
    qPc,        \* "idle" | "write" | "done"
    qItems,     \* items, each kept by its Payload
    qI,         \* position of the range loop over items (1-based)
    qH,         \* h, as the bytes written to it so far
    qKey,       \* the key returned
    qPrev,      \* history: the items and the key of the call before
    \* ---- buildAuthHeader (SpecAuth)
    aPc,        \* "new" | "ready" | "failed" (the constructor returned an error)
    aKeyHex,    \* keyHex as passed to the constructor, a string of KeyChars
    aKey,       \* shared.key64
    aNow,       \* history: time.Now().Unix() when the header was built
    aHdr,       \* the header buildAuthHeader returned
    \* ---- Send against a relay that stores (SpecRetry)
    uPc,        \* "idle" | "post" | "done" | "aborted"
    uPayload,   \* body
    uChunks,    \* chunks
    uIdx,       \* idx of the range loop in Send
    uRetry,     \* retry of the loop in postChunkWithRetry
    uStore,     \* the relay's {idx: bytes} of the session
    uDup,       \* history: the indices the relay stored more than once
    \* ---- the stream transport (SpecWs)
    wCtx,       \* ctx is cancelled
    wPc,        \* Poll: "idle" | "dial" | "read" | "wait" | "returned"
    wConn,      \* a connection is up
    wGen,       \* the number of connections established so far
    wDelay,     \* the back-off delay of the next reconnect attempt, in ms
    wMissed,    \* keepalive probes unacknowledged in a row
    wOut,       \* the connections a Snapshot was delivered from to out
    wSend,      \* the result of the last Send: "none" | "ok" | "err"
    wWrites,    \* history: the writes the last Send attempted
    wCalls,     \* history: the invocations of Poll
    wLast,      \* history: the last step and the delay slept before it
    wLost,      \* history: why the last connection was given up
    wProbes,    \* history: the outcomes of the last two probes of the connection
    \* ---- two clients of main.go around one relay (SpecPoller, SpecSystem)
    clipItems,  \* per client: the items on the local clipboard
    clipSeq,    \* per client: the clipboard sequence number (clip.GetSeq)
    lastSeq,    \* per client: lastSeq of watcher
    lastQuick,  \* per client: lastQuick of watcher
    toUp,       \* per client: the channel watcher -> uploader
    fromSrv,    \* per client: the channel Poll -> poller
    lastRemoteQuick, \* per client: lastRemoteQuick of poller
    crashed,    \* per client: the process panicked
    relaySnap,  \* the Snapshot of the relay's active session
    sends,      \* history, per client: the calls of Send
    writes,     \* history, per client: the clipboard writes of poller
    copies,     \* history: the local copies made by users
    prevRecv,   \* history, per client: quick key and outcome of the Snapshot
                \* poller received last
    \* ---- the Sends of two clients at one relay (SpecOverlap)
    oChunks,    \* per client: chunks of its Send, << >> before the Send
    oNext,      \* per client: the index of the next chunk to POST
    oRelay,     \* the relay: snap_id, snap_total, snap_parts
    \* ---- DIBToPNG (SpecDib)
    dPc,        \* "idle", "rows", "done", "panic"
    dBuild,     \* the width in bits of int in the build that runs
    dField,     \* the biHeight field of the header, as the unsigned word read
    dData,      \* the pixel rows that follow the header, first in memory first
    dHeight,    \* height
    dBottomUp,  \* bottomUp
    dY,         \* y of the row loop
    dImg        \* rgba: row y of the image, 0 where nothing was copied

codecVars == <<cPc, cPayload, cSize, cChunks, cParts, cTotal, cFull, cArrived>>
sendVars  == <<sPc, sLen, sI, sCid, sIdx, sRetry, sDelay, sLastErr, sResult,
               sReq, sChunks, sAcked, sPosts, sFailed, sTries, sFirst,
               sSlept>>

pollVars  == <<ctxDone, pPc, current, meta, pK, pSnap, out, relay, pAdv,
               pFetchFail, pEmitIter, pLastAsm, pEmits, pSrc, pFailed,
               pLast>>

quickVars == <<qPc, qItems, qI, qH, qKey, qPrev>>
authVars  == <<aPc, aKeyHex, aKey, aNow, aHdr>>
retryVars == <<uPc, uPayload, uChunks, uIdx, uRetry, uStore, uDup>>
wsVars    == <<wCtx, wPc, wConn, wGen, wDelay, wMissed, wOut, wSend, wWrites,
               wCalls, wLast, wLost, wProbes>>
mainVars  == <<clipItems, clipSeq, lastSeq, lastQuick, toUp, fromSrv,
               lastRemoteQuick, crashed, relaySnap, sends, writes, copies,
               prevRecv>>
overlapVars == <<oChunks, oNext, oRelay>>
dibVars   == <<dPc, dBuild, dField, dData, dHeight, dBottomUp, dY, dImg>>

-----------------------------------------------------------------------------
(* Program constants *)

chunkSize   == 307200
bodyCap     == 33554432
maxRetries  == 5
baseDelay   == 100000000
maxDelay    == 2000000000

(* Bounds of the model *)

MaxPayload  == 4
MaxPartSize == 3
NumCids     == 2
MaxFailed   == 7
OutCap      == 1
MaxCount    == 2
MaxConns    == 3
ChanCap     == 1
SeqMod      == 8
MaxRows     == 3
JitterSteps == 4
MaxItems    == 2
WordBits    == 4

Bytes       == {0, 1}
Cids        == 1..NumCids

Min(a, b)   == IF a < b THEN a ELSE b

-----------------------------------------------------------------------------
(***************************************************************************)
(* Chunk codec.  A payload is a sequence of bytes; a chunk of Send is the  *)
(* slice body[i:end], kept as the pair <<i, end>>.                         *)
(***************************************************************************)

\* poll.go:56-59: end := i + chunkSize, clamped to len(body) -- without the clamp
ChunkEndNoClamp(i, n, size) == i + size

\* poll.go:56-59: end := i + chunkSize; if end > len(body) { end = len(body) }
ChunkEnd(i, n, size) == IF i + size > n THEN n ELSE i + size

RECURSIVE ChunkLoop(_, _, _)
\* poll.go:55-61: for i := 0; i < len(body); i += chunkSize { append(body[i:end]) }
ChunkLoop(i, n, size) ==
    IF i < n
    THEN <<  <<i, ChunkEnd(i, n, size)>>  >> \o ChunkLoop(i + size, n, size)
    ELSE << >>

\* the chunks of a body of length n, as slice bounds
ChunkBounds(n, size) == ChunkLoop(0, n, size)

\* body[lo:hi]
Slice(body, lo, hi) == SubSeq(body, lo + 1, Min(hi, Len(body)))

\* chunks [][]byte of a concrete body
Split(body, size) ==
    LET b == ChunkBounds(Len(body), size)
    IN  [k \in 1..Len(b) |-> Slice(body, b[k][1], b[k][2])]

\* s.parts[i] of a Go map: the zero value (nil slice) for a missing key
PartAt(parts, i) == IF i \in DOMAIN parts THEN parts[i] ELSE << >>

RECURSIVE ConcatFrom(_, _, _)
\* poll.go:249-252: for i := 0; i < s.total; i++ { full = append(full, s.parts[i]...) }
ConcatFrom(i, parts, total) ==
    IF i < total
    THEN PartAt(parts, i) \o ConcatFrom(i + 1, parts, total)
    ELSE << >>

\* `full` as built from index 1 on (an off-by-one of the loop)
ConcatIndexedMut(parts, total) == ConcatFrom(1, parts, total)

\* `full` of state.assemble
ConcatIndexed(parts, total) == ConcatFrom(0, parts, total)

\* poll.go:174 / 245: current.total > 0 && len(current.parts) == current.total
Complete(parts, total) == total > 0 /\ Cardinality(DOMAIN parts) = total

Payloads == UNION {[1..n -> Bytes] : n \in 0..MaxPayload}

EmptyParts == [i \in {} |-> << >>]

CodecInit ==
    /\ cPc = "idle" /\ cPayload = << >> /\ cSize = 1 /\ cChunks = << >>
    /\ cParts = EmptyParts /\ cTotal = 0 /\ cFull = << >> /\ cArrived = << >>

\* Send's slicing of a payload p with part size m; the receiver starts a session
CodecSplit(p, m) ==
    /\ cPc = "idle"
    /\ cPayload' = p /\ cSize' = m
    /\ cChunks' = Split(p, m)
    /\ cTotal' = Len(Split(p, m))
    /\ cParts' = EmptyParts
    /\ cFull' = << >> /\ cArrived' = << >>
    /\ cPc' = "split"
    /\ UNCHANGED <<sendVars, pollVars, quickVars, authVars, retryVars, wsVars,
                   mainVars,
                   overlapVars,
                   dibVars>>

\* poll.go:168 current.parts[idx] = data, for the parts in any order of arrival
CodecStore(i) ==
    /\ cPc = "split"
    /\ i \in 0..(Len(cChunks) - 1)
    /\ i \notin DOMAIN cParts
    /\ cParts' = [j \in DOMAIN cParts \cup {i} |->
                    IF j = i THEN cChunks[i + 1] ELSE cParts[j]]
    /\ cArrived' = Append(cArrived, i)
    /\ UNCHANGED <<cPc, cPayload, cSize, cChunks, cTotal, cFull>>
    /\ UNCHANGED <<sendVars, pollVars, quickVars, authVars, retryVars, wsVars,
                   mainVars,
                   overlapVars,
                   dibVars>>

\* poll.go:174-175, 244-252: assemble once complete
CodecAssemble ==
    /\ cPc = "split"
    /\ Complete(cParts, cTotal)
    /\ cFull' = ConcatIndexed(cParts, cTotal)
    /\ cPc' = "assembled"
    /\ UNCHANGED <<cPayload, cSize, cChunks, cParts, cTotal, cArrived>>
    /\ UNCHANGED <<sendVars, pollVars, quickVars, authVars, retryVars, wsVars,
                   mainVars,
                   overlapVars,
                   dibVars>>

\* poll.go:178 current = state{}
CodecReset ==
    /\ cPc \in {"split", "assembled"}
    /\ cPc' = "idle" /\ cPayload' = << >> /\ cSize' = 1 /\ cChunks' = << >>
    /\ cParts' = EmptyParts /\ cTotal' = 0 /\ cFull' = << >> /\ cArrived' = << >>
    /\ UNCHANGED <<sendVars, pollVars, quickVars, authVars, retryVars, wsVars,
                   mainVars,
                   overlapVars,
                   dibVars>>

-----------------------------------------------------------------------------
(***************************************************************************)
(* Send.  The serialized body is kept by its length; a POST is the record  *)
(* of its headers and the length of its body.  A response is its status    *)
(* code, 0 standing for a transport error (client.Do returned err).        *)
(***************************************************************************)

\* len(mustJSON(&snap)) for the snapshots handed to Send
BodyLens == {1, chunkSize - 1, chunkSize, chunkSize + 1, 2 * chunkSize,
             716800, bodyCap, bodyCap + 1}

Statuses == {0, 200, 299, 300, 401, 500}

NoReq  == [cid |-> 0, idx |-> -1, total |-> -1, len |-> -1]
NoErr  == [kind |-> "none",     idx |-> -1, retry |-> -1, status |-> -1]
ErrCap == [kind |-> "too_large", idx |-> -1, retry |-> -1, status |-> -1]

\* poll.go:48 with >= for >
TooLargeMut(n) == n >= bodyCap

\* poll.go:48 len(body) > bodyCap
TooLarge(n) == n > bodyCap

\* the superseded "0 until the last chunk" rule
totalHdrMut(n, idx) == IF idx = n - 1 THEN n ELSE 0

\* poll.go:68 totalHdr := len(chunks)
totalHdr(n, idx) == n

\* a status check that accepts every status from 200 on
Is2xxMut(status) == status >= 200

\* poll.go:107 resp.StatusCode >= 200 && resp.StatusCode < 300
Is2xx(status) == status >= 200 /\ status < 300

\* a retry loop that runs once more
RetryLoopCondMut(retry) == retry <= maxRetries + 1

\* poll.go:87 loop condition retry <= maxRetries
RetryLoopCond(retry) == retry <= maxRetries

\* lastErr kept from the first failure
RecordErrMut(old, new) == IF old.kind = "none" THEN new ELSE old

\* poll.go:102, 110 lastErr = fmt.Errorf(...)
RecordErr(old, new) == new

\* poll.go:102 / 110 the error of a failed attempt
AttemptErr(idx, retry, status) ==
    [kind   |-> IF status = 0 THEN "transport" ELSE "status",
     idx    |-> idx, retry |-> retry, status |-> status]

\* the delay doubles
NextDelayMut(d) == Min(d * 2, maxDelay)

\* poll.go:117-120 delay = delay * delayFactor, capped by maxDelay
NextDelay(d) == Min((d * 3) \div 2, maxDelay)

\* the jitter spans 80% to 160%
JitterMut(d, r) == (d \div 10) * 8 + ((d \div 10) * 8 * r) \div JitterSteps

\* poll.go:115 delay * (0.8 + 0.4*rand.Float64()), with rand.Float64() drawn
\* as r/JitterSteps for r < JitterSteps
Jitter(d, r) == (d \div 10) * 8 + ((d \div 10) * 4 * r) \div JitterSteps

\* poll.go:88-98 the request of chunk idx
MkReq(cid, chunks, idx) ==
    [cid   |-> cid, idx |-> idx,
     total |-> totalHdr(Len(chunks), idx),
     len   |-> chunks[idx + 1][2] - chunks[idx + 1][1]]

\* the chunk set is kept on the client and Send clears it
SendFrameMut ==
    /\ current' = [current EXCEPT !.parts = EmptyParts]
    /\ UNCHANGED <<ctxDone, pPc, meta, pK, pSnap, out, relay, pAdv,
                   pFetchFail, pEmitIter, pLastAsm, pEmits, pSrc, pFailed,
                   pLast>>
    /\ UNCHANGED <<codecVars, quickVars, authVars, retryVars, wsVars,
                   mainVars,
                   overlapVars,
                   dibVars>>

\* poll.go:42-77, 80-125 Send and postChunkWithRetry use c.url, c.client and
\* c.shared and their own locals; the chunk set is a local of Poll (poll.go:137)
SendFrame ==
    UNCHANGED <<codecVars, pollVars, quickVars, authVars, retryVars,
                   wsVars,
                   mainVars,
                   overlapVars,
                   dibVars>>

SendInit ==
    /\ sPc = "idle" /\ sLen = 0 /\ sI = 0 /\ sCid = 0 /\ sIdx = 0 /\ sRetry = 0
    /\ sDelay = baseDelay /\ sLastErr = NoErr /\ sResult = NoErr
    /\ sReq = NoReq /\ sChunks = << >> /\ sAcked = 0 /\ sPosts = 0
    /\ sFailed = 0 /\ sTries = 0 /\ sFirst = NoReq /\ sSlept = 0

\* poll.go:42-50 Send rejects a body over the cap before any request
SendTooLarge(n) ==
    /\ sPc = "idle"
    /\ TooLarge(n)
    /\ sLen' = n
    /\ sResult' = ErrCap
    /\ sPc' = "done"
    /\ UNCHANGED <<sI, sCid, sIdx, sRetry, sDelay, sLastErr, sReq, sChunks,
                   sAcked, sPosts, sFailed, sTries, sFirst>>
    /\ sSlept' = 0
    /\ SendFrame

\* poll.go:42-55 Send accepts the body and enters the slicing loop
SendStart(n) ==
    /\ sPc = "idle"
    /\ ~TooLarge(n)
    /\ sLen' = n /\ sI' = 0 /\ sChunks' = << >>
    /\ sPc' = "slice"
    /\ UNCHANGED <<sCid, sIdx, sRetry, sDelay, sLastErr, sResult, sReq,
                   sAcked, sPosts, sFailed, sTries, sFirst>>
    /\ sSlept' = 0
    /\ SendFrame

\* poll.go:55-61 one iteration of the slicing loop
SendSlice ==
    /\ sPc = "slice"
    /\ sI < sLen
    /\ sChunks' = Append(sChunks, <<sI, ChunkEnd(sI, sLen, chunkSize)>>)
    /\ sI' = sI + chunkSize
    /\ UNCHANGED <<sPc, sLen, sCid, sIdx, sRetry, sDelay, sLastErr, sResult,
                   sReq, sAcked, sPosts, sFailed, sTries, sFirst>>
    /\ sSlept' = 0
    /\ SendFrame

\* poll.go:63-70, 84-100 the loop is over: draw the cid and POST chunk 0
\* (no chunk at all: the range loop is empty and Send returns nil)
SendFirstPost(cid) ==
    /\ sPc = "slice"
    /\ ~(sI < sLen)
    /\ sCid' = cid
    /\ IF Len(sChunks) > 0
       THEN /\ sReq' = MkReq(cid, sChunks, 0)
            /\ sFirst' = MkReq(cid, sChunks, 0)
            /\ sIdx' = 0 /\ sRetry' = 0 /\ sDelay' = baseDelay
            /\ sLastErr' = NoErr
            /\ sPosts' = 1 /\ sTries' = 1
            /\ sPc' = "post"
            /\ UNCHANGED sResult
       ELSE /\ sPc' = "done" /\ sResult' = NoErr
            /\ UNCHANGED <<sReq, sFirst, sIdx, sRetry, sDelay, sLastErr,
                           sPosts, sTries>>
    /\ UNCHANGED <<sLen, sI, sChunks, sAcked, sFailed>>
    /\ sSlept' = 0
    /\ SendFrame

\* poll.go:107-109, 67-76 a response the client takes for a success: next chunk or return nil
PostOk(status) ==
    /\ sPc = "post"
    /\ Is2xx(status)
    /\ sAcked' = IF status >= 200 /\ status < 300 THEN sAcked + 1 ELSE sAcked
    /\ IF sIdx + 1 < Len(sChunks)
       THEN /\ sIdx' = sIdx + 1
            /\ sRetry' = 0 /\ sDelay' = baseDelay /\ sLastErr' = NoErr
            /\ sReq' = MkReq(sCid, sChunks, sIdx + 1)
            /\ sPosts' = sPosts + 1 /\ sTries' = 1
            /\ UNCHANGED <<sPc, sResult>>
       ELSE /\ sPc' = "done"
            /\ sResult' = NoErr
            /\ sReq' = NoReq
            /\ UNCHANGED <<sIdx, sRetry, sDelay, sLastErr, sPosts, sTries>>
    /\ UNCHANGED <<sLen, sI, sCid, sChunks, sFailed, sFirst>>
    /\ sSlept' = 0
    /\ SendFrame

\* poll.go:100-113, 87, 122-124, 72-73 a failed attempt: lastErr is set; then
\* the sleep when retry < maxRetries, else retry++ and the loop condition
PostFail(status) ==
    /\ sPc = "post"
    /\ ~Is2xx(status)
    /\ sFailed < MaxFailed
    /\ sFailed' = sFailed + 1
    /\ sLastErr' = RecordErr(sLastErr, AttemptErr(sIdx, sRetry, status))
    /\ IF sRetry < maxRetries
       THEN /\ sPc' = "backoff"
            /\ sReq' = NoReq
            /\ UNCHANGED <<sRetry, sResult, sPosts, sTries>>
       ELSE IF RetryLoopCond(sRetry + 1)
            THEN /\ sRetry' = sRetry + 1
                 /\ sReq' = MkReq(sCid, sChunks, sIdx)
                 /\ sPosts' = sPosts + 1 /\ sTries' = sTries + 1
                 /\ UNCHANGED <<sPc, sResult>>
            ELSE /\ sPc' = "done"
                 /\ sReq' = NoReq
                 /\ sResult' = sLastErr'
                 /\ UNCHANGED <<sRetry, sPosts, sTries>>
    /\ UNCHANGED <<sLen, sI, sCid, sIdx, sDelay, sChunks, sAcked, sFirst>>
    /\ sSlept' = 0
    /\ SendFrame

\* poll.go:113-121, 87-100 after the sleep: the new delay, retry++, the loop
\* condition and the next POST
Backoff(r) ==
    /\ sPc = "backoff"
    /\ sDelay' = NextDelay(sDelay)
    /\ IF RetryLoopCond(sRetry + 1)
       THEN /\ sRetry' = sRetry + 1
            /\ sReq' = MkReq(sCid, sChunks, sIdx)
            /\ sPosts' = sPosts + 1 /\ sTries' = sTries + 1
            /\ sPc' = "post"
            /\ UNCHANGED sResult
       ELSE /\ sPc' = "done"
            /\ sResult' = sLastErr
            /\ UNCHANGED <<sRetry, sReq, sPosts, sTries>>
    /\ UNCHANGED <<sLen, sI, sCid, sIdx, sLastErr, sChunks, sAcked, sFailed,
                   sFirst>>
    /\ sSlept' = Jitter(sDelay, r)
    /\ SendFrame

\* main.go:66-75 the uploader takes the result and calls Send again later
SendReturn ==
    /\ sPc = "done"
    /\ sPc' = "idle" /\ sLen' = 0 /\ sI' = 0 /\ sCid' = 0 /\ sIdx' = 0
    /\ sRetry' = 0
    /\ sDelay' = baseDelay /\ sLastErr' = NoErr /\ sResult' = NoErr
    /\ sReq' = NoReq /\ sChunks' = << >> /\ sAcked' = 0 /\ sPosts' = 0
    /\ sFailed' = 0 /\ sTries' = 0 /\ sFirst' = NoReq
    /\ sSlept' = 0
    /\ SendFrame

-----------------------------------------------------------------------------
(***************************************************************************)
(* Poll.  A Snapshot is kept by its origin and the number of its items;    *)
(* its JSON is the byte sequence <<Open, origin, items, Close>>.  The cid  *)
(* "" is 0.  The relay holds one session, as part_004 section 2 describes. *)
(***************************************************************************)

LocalId  == "me"

Open     == 10
Close    == 11

NilSnap  == [ok |-> FALSE, origin |-> "", items |-> 0]
Snap(o, n) == [ok |-> TRUE, origin |-> o, items |-> n]

OriginByte(o) == IF o = "me" THEN 1 ELSE 2
ByteOrigin(b) == IF b = 1 THEN "me" ELSE "other"

\* json.Marshal of a Snapshot
JsonMarshal(snap) == <<Open, OriginByte(snap.origin), 20 + snap.items, Close>>

\* poll.go:254-258 json.Unmarshal(full, &snap): nil on malformed input
JsonUnmarshal(full) ==
    IF /\ Len(full) = 4
       /\ full[1] = Open /\ full[4] = Close
       /\ full[2] \in {1, 2}
       /\ full[3] \in {20, 21}
    THEN Snap(ByteOrigin(full[2]), full[3] - 20)
    ELSE NilSnap

NoState == [cid |-> 0, total |-> 0, parts |-> EmptyParts]
NoMeta  == [cid |-> 0, total |-> 0, have |-> << >>]

\* poll.go:244-259 state.assemble
Assemble(st) ==
    IF st.total = 0 \/ Cardinality(DOMAIN st.parts) # st.total
    THEN NilSnap
    ELSE JsonUnmarshal(ConcatIndexed(st.parts, st.total))

\* the emit condition without the origin filter
ShouldEmitMut(snap, id) == snap.ok

\* the emit condition without the nil test
ShouldEmitNoNil(snap, id) == snap.origin # id

\* poll.go:175 snap != nil && snap.Origin != c.id
ShouldEmit(snap, id) == snap.ok /\ snap.origin # id

\* what uploaders put on the relay: cid, declared total (X-Chunk-Total) and the
\* chunks, chunks[k] posted under the index at[k] (X-Chunk-Index)
Uploads ==
    { [cid |-> 1, total |-> 2, at |-> <<0, 1>>,
       chunks |-> Split(JsonMarshal(Snap("other", 1)), 2)],
      [cid |-> 2, total |-> 2, at |-> <<0, 1>>,
       chunks |-> Split(JsonMarshal(Snap("me", 1)), 2)],
      [cid |-> 3, total |-> 1, at |-> <<0>>,
       chunks |-> Split(JsonMarshal(Snap("other", 0)), 4)],
      [cid |-> 4, total |-> 2, at |-> <<0, 1>>,
       chunks |-> Split(<<Open, 2, 21>>, 2)],
      [cid |-> 5, total |-> 2, at |-> <<0, 7>>,
       chunks |-> <<JsonMarshal(Snap("other", 1)), <<Close>>>>] }

PollCids == {u.cid : u \in Uploads}

\* the sessions of the runs in which the relay changes a total, and the
\* totals it may report
TotalUploads == {u \in Uploads : u.cid \in {1, 3}}
Totals       == {u.total : u \in TotalUploads}

\* the inputs of the runs in which a Send and Poll interleave
ConcUploads  == {u \in Uploads : u.cid = 1}
ConcBodyLens == {chunkSize + 1, bodyCap + 1}
ConcStatuses == {200, 500}
ConcJitter   == {0}

RECURSIVE SortedSeq(_)
\* the indices of a set in increasing order
SortedSeq(S) ==
    IF S = {} THEN << >>
    ELSE LET m == CHOOSE x \in S : \A y \in S : x <= y
         IN  <<m>> \o SortedSeq(S \ {m})

\* part_004:58-66 the relay's discover JSON {cid, total, have}
Wire(r) == [cid |-> r.cid, total |-> r.total, have |-> SortedSeq(DOMAIN r.parts)]

\* part_004:58-66 the discover JSON read field by field into {cid, total, have}
DecodeFields(w) == [cid |-> w.cid, total |-> w.total, have |-> w.have]

\* poll.go:198-202, 230-234 json.Decode into discoverResp: the fields cid, total
\* and have are unexported, encoding/json leaves them at their zero values
DecodeDiscover(w) == NoMeta

\* a step of Poll and the index it concerned (for a discover, the number of
\* parts held when it was answered)
Ev(e, i) == [ev |-> e, idx |-> i]

\* the session each held part was served from, following state.parts
Prov(parts, src) ==
    [j \in DOMAIN parts |-> IF j \in DOMAIN src THEN src[j] ELSE 0]

\* a new session that keeps the parts already held
NewStateKeepParts(m, cur) == [cid |-> m.cid, total |-> m.total, parts |-> cur.parts]

\* poll.go:153-159 current = state{cid, total, parts: make(map[int][]byte)}
NewState(m, cur) == [cid |-> m.cid, total |-> m.total, parts |-> EmptyParts]

\* every advertised index is taken as missing
ExistsMut(parts, idx) == FALSE

\* poll.go:165 _, exists := current.parts[idx]
Exists(parts, idx) == idx \in DOMAIN parts

\* the part is stored whatever fetchChunk returned
AfterFetchMut(parts, idx, data, err) ==
    [j \in DOMAIN parts \cup {idx} |-> IF j = idx THEN data ELSE parts[j]]

\* poll.go:166-169 data, err := fetchChunk(...); if err == nil { parts[idx] = data }
AfterFetch(parts, idx, data, err) ==
    IF err THEN parts
    ELSE [j \in DOMAIN parts \cup {idx} |-> IF j = idx THEN data ELSE parts[j]]

\* a discover error ends Poll
AfterDiscoverErrMut == "returned"

\* poll.go:148-151 on a discover error: sleep, then continue
AfterDiscoverErr == "sleep"

PollInit ==
    /\ ctxDone = FALSE /\ pPc = "top" /\ current = NoState /\ meta = NoMeta
    /\ pK = 1 /\ pSnap = NilSnap /\ out = << >> /\ relay = NoState
    /\ pAdv = NoState /\ pFetchFail = FALSE /\ pEmitIter = FALSE
    /\ pLastAsm = NilSnap /\ pEmits = [c \in PollCids |-> 0]
    /\ pSrc = EmptyParts /\ pFailed = {} /\ pLast = Ev("none", 0)

\* part_004:49-50, 170-171 POST of chunk k of upload u: a new cid flushes the
\* previous session
RelayStore(u, k) ==
    /\ k \in 1..Len(u.chunks)
    /\ IF relay.cid # u.cid
       THEN relay' = [cid |-> u.cid, total |-> u.total,
                      parts |-> [j \in {u.at[k]} |-> u.chunks[k]]]
       ELSE /\ u.at[k] \notin DOMAIN relay.parts
            /\ relay' = [relay EXCEPT !.parts =
                           [j \in DOMAIN relay.parts \cup {u.at[k]} |->
                              IF j = u.at[k] THEN u.chunks[k] ELSE relay.parts[j]]]
    /\ UNCHANGED <<ctxDone, pPc, current, meta, pK, pSnap, out, pAdv,
                   pFetchFail, pEmitIter, pLastAsm, pEmits, pSrc, pFailed,
                   pLast>>
    /\ UNCHANGED <<codecVars, sendVars, quickVars, authVars, retryVars,
                   wsVars,
                   mainVars,
                   overlapVars,
                   dibVars>>

\* part_004:165-174 a relay that does not enforce a constant total takes the
\* X-Chunk-Total of a later chunk of the session
RelayTotal(t) ==
    /\ relay.cid # 0
    /\ t # relay.total
    /\ relay' = [relay EXCEPT !.total = t]
    /\ UNCHANGED <<ctxDone, pPc, current, meta, pK, pSnap, out, pAdv,
                   pFetchFail, pEmitIter, pLastAsm, pEmits, pSrc, pFailed,
                   pLast>>
    /\ UNCHANGED <<codecVars, sendVars, quickVars, authVars, retryVars,
                   wsVars,
                   mainVars,
                   overlapVars,
                   dibVars>>

\* part_004:56 GC flushes the session
RelayFlush ==
    /\ relay # NoState
    /\ relay' = NoState
    /\ UNCHANGED <<ctxDone, pPc, current, meta, pK, pSnap, out, pAdv,
                   pFetchFail, pEmitIter, pLastAsm, pEmits, pSrc, pFailed,
                   pLast>>
    /\ UNCHANGED <<codecVars, sendVars, quickVars, authVars, retryVars,
                   wsVars,
                   mainVars,
                   overlapVars,
                   dibVars>>

\* main.go:88 cancel()
Cancel ==
    /\ ~ctxDone
    /\ ctxDone' = TRUE
    /\ UNCHANGED <<pPc, current, meta, pK, pSnap, out, relay, pAdv,
                   pFetchFail, pEmitIter, pLastAsm, pEmits, pSrc, pFailed,
                   pLast>>
    /\ UNCHANGED <<codecVars, sendVars, quickVars, authVars, retryVars,
                   wsVars,
                   mainVars,
                   overlapVars,
                   dibVars>>

\* poll.go:139-147 select on ctx.Done(), else the discover request goes out;
\* meta and the range position are the iteration's own
PollTop ==
    /\ pPc = "top"
    /\ pPc' = IF ctxDone THEN "returned" ELSE "discover"
    /\ meta' = NoMeta /\ pK' = 1
    /\ pFetchFail' = FALSE /\ pEmitIter' = FALSE /\ pAdv' = NoState
    /\ pLastAsm' = NilSnap
    /\ pLast' = Ev(IF ctxDone THEN "return" ELSE "top", 0)
    /\ UNCHANGED <<ctxDone, current, pSnap, out, relay, pEmits, pSrc, pFailed>>
    /\ UNCHANGED <<codecVars, sendVars, quickVars, authVars, retryVars,
                   wsVars,
                   mainVars,
                   overlapVars,
                   dibVars>>

\* poll.go:148-151 discover failed: sleep and continue
DiscoverFail ==
    /\ pPc = "discover"
    /\ pPc' = AfterDiscoverErr
    /\ pLast' = Ev("discover_err", 0)
    /\ UNCHANGED <<ctxDone, current, meta, pK, pSnap, out, relay, pAdv,
                   pFetchFail, pEmitIter, pLastAsm, pEmits, pSrc, pFailed>>
    /\ UNCHANGED <<codecVars, sendVars, quickVars, authVars, retryVars,
                   wsVars,
                   mainVars,
                   overlapVars,
                   dibVars>>

\* the total of a later discover replaces the one held
SameSessionMut(m, cur) ==
    IF m.total # 0 THEN [cur EXCEPT !.total = m.total] ELSE cur

\* poll.go:154-160 the cid is the one tracked (or empty): current is left as
\* it is, whatever total the response carries
SameSession(m, cur) == cur

\* poll.go:153-163 with the discoverResp m: a new cid resets current; the range
\* over m.have starts when a session is tracked
AfterDiscover(m) ==
    /\ meta' = m
    /\ current' = IF m.cid # 0 /\ m.cid # current.cid
                  THEN NewState(m, current)
                  ELSE SameSession(m, current)
    /\ pK' = 1
    /\ pPc' = IF current'.cid # 0 THEN "fetch" ELSE "sleep"
    /\ pAdv' = relay
    /\ pSrc' = Prov(current'.parts, pSrc)
    /\ pFailed' = IF current' # current THEN {} ELSE pFailed
    /\ pLast' = Ev(IF current' # current THEN "discover_new" ELSE "discover_ok",
                   Cardinality(DOMAIN current.parts))
    /\ UNCHANGED <<ctxDone, pSnap, out, relay, pFetchFail, pEmitIter,
                   pLastAsm, pEmits>>
    /\ UNCHANGED <<codecVars, sendVars, quickVars, authVars, retryVars,
                   wsVars,
                   mainVars,
                   overlapVars,
                   dibVars>>

\* poll.go:147, 187-203 discover answered; the body decoded by json.Decode
DiscoverOk ==
    /\ pPc = "discover"
    /\ ~ctxDone
    /\ AfterDiscover(DecodeDiscover(Wire(relay)))

\* poll.go:147 discover answered, returning the {cid, total, have} of part_004:58-66
DiscoverOkFields ==
    /\ pPc = "discover"
    /\ ~ctxDone
    /\ AfterDiscover(DecodeFields(Wire(relay)))

\* poll.go:164-165 an advertised index that is already held
FetchSkip ==
    /\ pPc = "fetch"
    /\ pK <= Len(meta.have)
    /\ Exists(current.parts, meta.have[pK])
    /\ pK' = pK + 1
    /\ pLast' = Ev("skip", meta.have[pK])
    /\ pFailed' = pFailed \ DOMAIN current.parts
    /\ UNCHANGED <<ctxDone, pPc, current, meta, pSnap, out, relay, pAdv,
                   pFetchFail, pEmitIter, pLastAsm, pEmits, pSrc>>
    /\ UNCHANGED <<codecVars, sendVars, quickVars, authVars, retryVars,
                   wsVars,
                   mainVars,
                   overlapVars,
                   dibVars>>

\* poll.go:166-169, 205-225 fetchChunk returned the part: it is stored
FetchOk ==
    /\ pPc = "fetch"
    /\ pK <= Len(meta.have)
    /\ ~Exists(current.parts, meta.have[pK])
    /\ ~ctxDone
    /\ relay.cid = current.cid
    /\ meta.have[pK] \in DOMAIN relay.parts
    /\ current' = [current EXCEPT !.parts =
                     AfterFetch(current.parts, meta.have[pK],
                                relay.parts[meta.have[pK]], FALSE)]
    /\ pK' = pK + 1
    /\ pSrc' = [j \in DOMAIN current'.parts |->
                  IF j = meta.have[pK] THEN relay.cid ELSE pSrc[j]]
    /\ pLast' = Ev("fetch_ok", meta.have[pK])
    /\ UNCHANGED pFailed
    /\ UNCHANGED <<ctxDone, pPc, meta, pSnap, out, relay, pAdv, pFetchFail,
                   pEmitIter, pLastAsm, pEmits>>
    /\ UNCHANGED <<codecVars, sendVars, quickVars, authVars, retryVars,
                   wsVars,
                   mainVars,
                   overlapVars,
                   dibVars>>

\* poll.go:166-167, 213-221 fetchChunk failed (transport error, 404, 410)
FetchFail ==
    /\ pPc = "fetch"
    /\ pK <= Len(meta.have)
    /\ ~Exists(current.parts, meta.have[pK])
    /\ current' = [current EXCEPT !.parts =
                     AfterFetch(current.parts, meta.have[pK], << >>, TRUE)]
    /\ pK' = pK + 1
    /\ pFetchFail' = TRUE
    /\ pSrc' = Prov(current'.parts, pSrc)
    /\ pLast' = Ev("fetch_err", meta.have[pK])
    /\ pFailed' = (pFailed \ DOMAIN current.parts) \cup {meta.have[pK]}
    /\ UNCHANGED <<ctxDone, pPc, meta, pSnap, out, relay, pAdv,
                   pEmitIter, pLastAsm, pEmits>>
    /\ UNCHANGED <<codecVars, sendVars, quickVars, authVars, retryVars,
                   wsVars,
                   mainVars,
                   overlapVars,
                   dibVars>>

\* the chunk set is reset only after a Snapshot was sent
AfterAssembleMut(cur, sent) == IF sent THEN NoState ELSE cur

\* poll.go:178 current = state{} after every assembly, sent or not
AfterAssemble(cur, sent) == NoState

\* poll.go:173-180 after the range loop: assemble if complete, filter, reset
PollAssemble ==
    /\ pPc = "fetch"
    /\ pK > Len(meta.have)
    /\ IF Complete(current.parts, current.total)
       THEN /\ pLastAsm' = Assemble(current)
            /\ IF ShouldEmit(Assemble(current), LocalId)
               THEN /\ pSnap' = Assemble(current)
                    /\ pPc' = "emit"
                    /\ UNCHANGED current
               ELSE /\ current' = AfterAssemble(current, FALSE)
                    /\ pPc' = "sleep"
                    /\ UNCHANGED pSnap
            /\ pLast' = Ev(IF Assemble(current).ok THEN "asm_ok" ELSE "asm_nil", 0)
       ELSE /\ pPc' = "sleep"
            /\ pLast' = Ev("incomplete", 0)
            /\ UNCHANGED <<current, pSnap, pLastAsm>>
    /\ pSrc' = Prov(current'.parts, pSrc)
    /\ pFailed' = IF current' # current THEN {} ELSE pFailed \ DOMAIN current.parts
    /\ UNCHANGED <<ctxDone, meta, pK, out, relay, pAdv, pFetchFail,
                   pEmitIter, pEmits>>
    /\ UNCHANGED <<codecVars, sendVars, quickVars, authVars, retryVars,
                   wsVars,
                   mainVars,
                   overlapVars,
                   dibVars>>

\* poll.go:176-178 out <- *snap goes through, then current = state{}
PollEmit ==
    /\ pPc = "emit"
    /\ Len(out) < OutCap
    /\ out' = Append(out, pSnap)
    /\ pEmits' = [c \in PollCids |->
                    IF c = current.cid THEN Min(pEmits[c] + 1, MaxCount) ELSE 0]
    /\ pEmitIter' = TRUE
    /\ current' = AfterAssemble(current, TRUE)
    /\ pSnap' = NilSnap
    /\ pPc' = "sleep"
    /\ pSrc' = EmptyParts /\ pFailed' = {}
    /\ pLast' = Ev("emit", 0)
    /\ UNCHANGED <<ctxDone, meta, pK, relay, pAdv, pFetchFail, pLastAsm>>
    /\ UNCHANGED <<codecVars, sendVars, quickVars, authVars, retryVars,
                   wsVars,
                   mainVars,
                   overlapVars,
                   dibVars>>

\* poll.go:149-150, 182 time.Sleep(200 ms), then the next iteration
PollSleep ==
    /\ pPc = "sleep"
    /\ pPc' = "top"
    /\ pLast' = Ev("sleep", 0)
    /\ UNCHANGED <<ctxDone, current, meta, pK, pSnap, out, relay, pAdv,
                   pFetchFail, pEmitIter, pLastAsm, pEmits, pSrc, pFailed>>
    /\ UNCHANGED <<codecVars, sendVars, quickVars, authVars, retryVars,
                   wsVars,
                   mainVars,
                   overlapVars,
                   dibVars>>

\* main.go:136 the poller receives from the channel
OutRecv ==
    /\ out # << >>
    /\ out' = Tail(out)
    /\ UNCHANGED <<ctxDone, pPc, current, meta, pK, pSnap, relay, pAdv,
                   pFetchFail, pEmitIter, pLastAsm, pEmits, pSrc, pFailed,
                   pLast>>
    /\ UNCHANGED <<codecVars, sendVars, quickVars, authVars, retryVars,
                   wsVars,
                   mainVars,
                   overlapVars,
                   dibVars>>

-----------------------------------------------------------------------------
(***************************************************************************)
(* QuickKey.  An Item is kept by its Payload, the only field QuickKey      *)
(* reads; its Payload is one of PayloadStrings.  SHA-256 is taken to be    *)
(* collision-free, also on the 8 bytes QuickKey keeps: a digest is kept by *)
(* the bytes that were written to the hash.                                *)
(***************************************************************************)


RECURSIVE SeqsUpTo(_, _)
\* the sequences over S of length at most n
SeqsUpTo(S, n) ==
    IF n = 0 THEN {<< >>}
    ELSE LET R == SeqsUpTo(S, n - 1)
         IN  R \cup {Append(r, x) : r \in {r \in R : Len(r) = n - 1}, x \in S}

\* the payloads "", "a", "b", "ab", "ba"
PayloadStrings == {<< >>, <<97>>, <<98>>, <<97, 98>>, <<98, 97>>}
ItemSeqs       == SeqsUpTo(PayloadStrings, MaxItems)

\* the string "empty"
EmptyKey == [kind |-> "literal", size |-> 5, of |-> <<101, 109, 112, 116, 121>>]

NoKey  == [kind |-> "none", size |-> 0, of |-> << >>]
NoCall == [items |-> << >>, key |-> NoKey]

\* a hash that keeps what earlier calls wrote to it
ShaNewMut(h) == h

\* part_005:27 sha256.New(): a hash with nothing written to it
ShaNew(h) == << >>

\* a Write that drops what was written before
ShaWriteMut(h, payload) == payload

\* part_005:29 h.Write([]byte(it.Payload))
ShaWrite(h, payload) == h \o payload

\* a key of the full digest
SumPrefixMut(h) == [kind |-> "sha256", size |-> 32, of |-> h]

\* part_005:31 string(h.Sum(nil)[:8])
SumPrefix(h) == [kind |-> "sha256", size |-> 8, of |-> h]

QuickInit ==
    /\ qPc = "idle" /\ qItems = << >> /\ qI = 1 /\ qH = << >>
    /\ qKey = NoKey /\ qPrev = NoCall

\* part_005:24-26 QuickKey called with no items
QuickKeyEmpty ==
    /\ qPc \in {"idle", "done"}
    /\ qItems' = << >>
    /\ qKey' = EmptyKey
    /\ qPc' = "done"
    /\ qPrev' = IF qPc = "done" THEN [items |-> qItems, key |-> qKey] ELSE qPrev
    /\ UNCHANGED <<qI, qH>>
    /\ UNCHANGED <<codecVars, sendVars, pollVars, authVars, retryVars, wsVars,
                   mainVars,
                   overlapVars,
                   dibVars>>

\* part_005:24-27 QuickKey called with items: the hash is created
QuickKeyStart(items) ==
    /\ qPc \in {"idle", "done"}
    /\ Len(items) # 0
    /\ qItems' = items
    /\ qH' = ShaNew(qH)
    /\ qI' = 1
    /\ qKey' = NoKey
    /\ qPc' = "write"
    /\ qPrev' = IF qPc = "done" THEN [items |-> qItems, key |-> qKey] ELSE qPrev
    /\ UNCHANGED <<codecVars, sendVars, pollVars, authVars, retryVars, wsVars,
                   mainVars,
                   overlapVars,
                   dibVars>>

\* part_005:28-30 one iteration of the range loop
QuickKeyWrite ==
    /\ qPc = "write"
    /\ qI <= Len(qItems)
    /\ qH' = ShaWrite(qH, qItems[qI])
    /\ qI' = qI + 1
    /\ UNCHANGED <<qPc, qItems, qKey, qPrev>>
    /\ UNCHANGED <<codecVars, sendVars, pollVars, authVars, retryVars, wsVars,
                   mainVars,
                   overlapVars,
                   dibVars>>

\* part_005:31 the first 8 bytes of the digest are returned
QuickKeySum ==
    /\ qPc = "write"
    /\ qI > Len(qItems)
    /\ qKey' = SumPrefix(qH)
    /\ qPc' = "done"
    /\ UNCHANGED <<qItems, qI, qH, qPrev>>
    /\ UNCHANGED <<codecVars, sendVars, pollVars, authVars, retryVars, wsVars,
                   mainVars,
                   overlapVars,
                   dibVars>>

-----------------------------------------------------------------------------
(***************************************************************************)
(* buildAuthHeader.  Words are WordBits wide: key64 is an unsigned word,   *)
(* ts and ts_enc are signed words in two's complement.                     *)
(***************************************************************************)

RECURSIVE Pow2(_)
Pow2(n) == IF n = 0 THEN 1 ELSE 2 * Pow2(n - 1)

UWords == 0..(Pow2(WordBits) - 1)
SWords == (0 - Pow2(WordBits - 1))..(Pow2(WordBits - 1) - 1)

\* the bits of a signed word, read as an unsigned word
ToUnsigned(x) == IF x < 0 THEN x + Pow2(WordBits) ELSE x

\* client.go:41 int64(s.key64): the bits of an unsigned word, read as signed
ToSigned(u) == IF u >= Pow2(WordBits - 1) THEN u - Pow2(WordBits) ELSE u

RECURSIVE XorBits(_, _, _)
\* bitwise exclusive or of the n low bits of a and b
XorBits(a, b, n) ==
    IF n = 0 THEN 0
    ELSE (((a % 2) + (b % 2)) % 2) + 2 * XorBits(a \div 2, b \div 2, n - 1)

\* ^ on int64
XorSigned(x, y) == ToSigned(XorBits(ToUnsigned(x), ToUnsigned(y), WordBits))

\* ts_enc as the wrapped sum of ts and the key
TsEncMut(ts, key64) == ToSigned((ToUnsigned(ts) + key64) % Pow2(WordBits))

\* client.go:41 ts ^ int64(s.key64)
TsEnc(ts, key64) == XorSigned(ts, ToSigned(key64))

\* encoding/json of an int64: an optional minus sign and the decimal digits
JsonInt(x) == [neg |-> x < 0, digits |-> IF x < 0 THEN 0 - x ELSE x]
IntOfJson(j) == IF j.neg THEN 0 - j.digits ELSE j.digits

\* client.go:41-43 base64 of the JSON {"ts":..,"ts_enc":..}
EncodeToken(tok) == <<"ts", JsonInt(tok.ts), "ts_enc", JsonInt(tok.ts_enc)>>

\* the receiver's base64 and JSON decoding of the header
DecodeToken(hdr) == [ts |-> IntOfJson(hdr[2]), ts_enc |-> IntOfJson(hdr[4])]

NoHdr == << >>

\* a character of a key string: the hex digits by their value, NonHex for
\* any other character
HexDigits == 0..15
NonHex    == 16

Zeros(n) == [i \in 1..n |-> 0]

\* "test-secret-key", the key of the tests
TestKey == <<NonHex, 14, NonHex, NonHex, NonHex, NonHex, 14, 12, NonHex, 14,
             NonHex, NonHex, NonHex, 14, NonHex>>

\* 16 hex digits whose value is the word u
KeyOfWord(u) == Zeros(14) \o <<u \div 16, u % 16>>

\* the key strings a client is constructed with: every word as 16 hex
\* digits, and strings of 0, 14, 15 and 18 hex digits, 16 characters with a
\* character that is no hex digit, and the key of the tests
KeyStrings ==
    {KeyOfWord(u) : u \in UWords}
      \cup {Zeros(0), Zeros(14), Zeros(15), Zeros(18),
            Zeros(15) \o <<NonHex>>, <<NonHex>> \o Zeros(15), TestKey}

\* encoding/hex DecodeString: an error on an odd length or a character that
\* is no hex digit, else one byte for each two digits
HexDecodeString(str) ==
    IF Len(str) % 2 = 1 \/ \E i \in 1..Len(str) : str[i] \notin HexDigits
    THEN [err |-> TRUE, bytes |-> << >>]
    ELSE [err |-> FALSE,
          bytes |-> [i \in 1..(Len(str) \div 2) |->
                       16 * str[2 * i - 1] + str[2 * i]]]

RECURSIVE BigEndianUint64(_)
\* client.go:30 binary.BigEndian.Uint64(k)
BigEndianUint64(k) ==
    IF k = << >> THEN 0
    ELSE 256 * BigEndianUint64(SubSeq(k, 1, Len(k) - 1)) + k[Len(k)]

\* the key is refused only when it is no hex string
KeyRefusedMut(d) == d.err

\* client.go:27 err != nil || len(k) != 8
KeyRefused(d) == d.err \/ Len(d.bytes) # 8

AuthInit ==
    /\ aPc = "new" /\ aKeyHex = << >> /\ aKey = 0 /\ aNow = 0 /\ aHdr = NoHdr

\* client.go:25-32, poll.go:28-39 NewHTTP / newShared with a key that is
\* accepted: the 8 key bytes read as a big-endian uint64
NewShared(keyHex) ==
    /\ aPc = "new"
    /\ ~KeyRefused(HexDecodeString(keyHex))
    /\ aKeyHex' = keyHex
    /\ aKey' = BigEndianUint64(HexDecodeString(keyHex).bytes)
    /\ aPc' = "ready"
    /\ UNCHANGED <<aNow, aHdr>>
    /\ UNCHANGED <<codecVars, sendVars, pollVars, quickVars, retryVars,
                   wsVars,
                   mainVars,
                   overlapVars,
                   dibVars>>

\* client.go:26-29, poll.go:30-32 the key is refused: an error and no client
NewSharedErr(keyHex) ==
    /\ aPc = "new"
    /\ KeyRefused(HexDecodeString(keyHex))
    /\ aKeyHex' = keyHex
    /\ aPc' = "failed"
    /\ UNCHANGED <<aKey, aNow, aHdr>>
    /\ UNCHANGED <<codecVars, sendVars, pollVars, quickVars, retryVars,
                   wsVars,
                   mainVars,
                   overlapVars,
                   dibVars>>

\* client.go:35-44 buildAuthHeader at the Unix time now
BuildAuthHeader(now) ==
    /\ aPc = "ready"
    /\ aNow' = now
    /\ aHdr' = EncodeToken([ts |-> now, ts_enc |-> TsEnc(now, aKey)])
    /\ UNCHANGED <<aPc, aKeyHex, aKey>>
    /\ UNCHANGED <<codecVars, sendVars, pollVars, quickVars, retryVars,
                   wsVars,
                   mainVars,
                   overlapVars,
                   dibVars>>

-----------------------------------------------------------------------------
(***************************************************************************)
(* Send against a relay that stores what it receives.  A POST is stored    *)
(* and acknowledged, stored with its response lost, or lost before the     *)
(* relay; in the last two cases postChunkWithRetry sees an error and POSTs *)
(* again.                                                                  *)
(***************************************************************************)

\* the retry moves on to the next index
PostReqMut(chunks, idx, retry) ==
    [idx |-> idx + retry, total |-> Len(chunks), data |-> chunks[idx + 1]]

\* poll.go:87-98 the POST of an attempt: the same data, idx and total each time
PostReq(chunks, idx, retry) ==
    [idx |-> idx, total |-> Len(chunks), data |-> chunks[idx + 1]]

\* part_004:49 the relay stores chunks as {idx: bytes}
RelayPut(parts, req) ==
    [j \in DOMAIN parts \cup {req.idx} |->
       IF j = req.idx THEN req.data ELSE parts[j]]

RetryInit ==
    /\ uPc = "idle" /\ uPayload = << >> /\ uChunks = << >> /\ uIdx = 0
    /\ uRetry = 0 /\ uStore = EmptyParts /\ uDup = {}

\* poll.go:52-66 Send slices the body; a new cid, so the relay starts empty
RetrySend(p, m) ==
    /\ uPc \in {"idle", "done", "aborted"}
    /\ Len(p) > 0
    /\ uPayload' = p
    /\ uChunks' = Split(p, m)
    /\ uIdx' = 0 /\ uRetry' = 0
    /\ uStore' = EmptyParts /\ uDup' = {}
    /\ uPc' = "post"
    /\ UNCHANGED <<codecVars, sendVars, pollVars, quickVars, authVars, wsVars,
                   mainVars,
                   overlapVars,
                   dibVars>>

\* poll.go:100-110 the POST is stored and the 2xx response arrives
RetryPostAcked ==
    /\ uPc = "post"
    /\ uStore' = RelayPut(uStore, PostReq(uChunks, uIdx, uRetry))
    /\ uDup' = IF PostReq(uChunks, uIdx, uRetry).idx \in DOMAIN uStore
               THEN uDup \cup {PostReq(uChunks, uIdx, uRetry).idx} ELSE uDup
    /\ IF uIdx + 1 < Len(uChunks)
       THEN uIdx' = uIdx + 1 /\ uPc' = "post"
       ELSE uIdx' = uIdx /\ uPc' = "done"
    /\ uRetry' = 0
    /\ UNCHANGED <<uPayload, uChunks>>
    /\ UNCHANGED <<codecVars, sendVars, pollVars, quickVars, authVars, wsVars,
                   mainVars,
                   overlapVars,
                   dibVars>>

\* poll.go:100-104, 113-124 the error path of an attempt: retry or give up
RetryAfterErr ==
    IF RetryLoopCond(uRetry + 1)
    THEN uRetry' = uRetry + 1 /\ uPc' = "post"
    ELSE uRetry' = uRetry /\ uPc' = "aborted"

\* the POST is stored but its response is lost: Do returns an error
RetryPostLost ==
    /\ uPc = "post"
    /\ uStore' = RelayPut(uStore, PostReq(uChunks, uIdx, uRetry))
    /\ uDup' = IF PostReq(uChunks, uIdx, uRetry).idx \in DOMAIN uStore
               THEN uDup \cup {PostReq(uChunks, uIdx, uRetry).idx} ELSE uDup
    /\ RetryAfterErr
    /\ UNCHANGED <<uPayload, uChunks, uIdx>>
    /\ UNCHANGED <<codecVars, sendVars, pollVars, quickVars, authVars, wsVars,
                   mainVars,
                   overlapVars,
                   dibVars>>

\* the POST does not reach the relay: Do returns an error
RetryPostFailed ==
    /\ uPc = "post"
    /\ RetryAfterErr
    /\ UNCHANGED <<uPayload, uChunks, uIdx, uStore, uDup>>
    /\ UNCHANGED <<codecVars, sendVars, pollVars, quickVars, authVars, wsVars,
                   mainVars,
                   overlapVars,
                   dibVars>>

-----------------------------------------------------------------------------
(***************************************************************************)
(* The stream transport (wsClient).  Its source file is not part of the    *)
(* sources at hand; the model follows section 4.5 of the specification and *)
(* the behaviour table of the design (part_003:69-79).  Delays are in ms.  *)
(***************************************************************************)

wsBaseDelay == 500
wsMaxDelay  == 8000
wsMaxMissed == 2

WsEv(e, n) == [ev |-> e, n |-> n]

\* the outcomes of the last two probes
LastTwo(probes, p) ==
    IF Len(probes) < 2 THEN Append(probes, p) ELSE <<probes[2], p>>

\* the back-off doubles without a cap
WsNextDelayMut(d) == 2 * d

\* Reconnect: exponential back-off 0.5 s -> 8 s
WsNextDelay(d) == Min(2 * d, wsMaxDelay)

\* one missed acknowledgment is enough
WsDeadMut(missed) == missed >= 1

\* Keepalive: dead after two consecutive missed acknowledgments
WsDead(missed) == missed >= wsMaxMissed

\* Poll returns when a read fails
WsAfterReadErrMut == "returned"

\* Receive loop: on read error, initiate reconnect
WsAfterReadErr == "wait"

\* Send writes again after a failed write
WsWritesAfterErrMut(n) == n + 1

\* Send: a write failure does not retry at this layer
WsWritesAfterErr(n) == n

WsInit ==
    /\ wCtx = FALSE /\ wPc = "idle" /\ wConn = FALSE /\ wGen = 0
    /\ wDelay = wsBaseDelay /\ wMissed = 0 /\ wOut = {}
    /\ wSend = "none" /\ wWrites = 0 /\ wCalls = 0
    /\ wLast = WsEv("init", 0) /\ wLost = "none" /\ wProbes = << >>

WsFrame == UNCHANGED <<codecVars, sendVars, pollVars, quickVars, authVars,
                       retryVars, mainVars,
                   overlapVars,
                   dibVars>>

\* the caller starts Poll, which connects
WsPoll ==
    /\ wPc = "idle"
    /\ wPc' = "dial" /\ wCalls' = wCalls + 1
    /\ wLast' = WsEv("poll", 0)
    /\ UNCHANGED <<wCtx, wConn, wGen, wDelay, wMissed, wOut, wSend, wWrites>>
    /\ UNCHANGED <<wLost, wProbes>>
    /\ WsFrame

\* Connect: a dial succeeds; the back-off starts over
WsDialOk ==
    /\ wPc = "dial" /\ ~wCtx /\ wGen < MaxConns
    /\ wConn' = TRUE /\ wGen' = wGen + 1
    /\ wDelay' = wsBaseDelay /\ wMissed' = 0
    /\ wPc' = "read"
    /\ wLast' = WsEv("dial_ok", wLast.n)
    /\ UNCHANGED <<wCtx, wOut, wSend, wWrites, wCalls>>
    /\ wProbes' = << >> /\ UNCHANGED wLost
    /\ WsFrame

\* Reconnect: a dial fails; the next attempt waits longer
WsDialFail ==
    /\ wPc = "dial" /\ ~wCtx
    /\ wDelay' = IF wLast.ev = "poll" THEN wDelay ELSE WsNextDelay(wDelay)
    /\ wPc' = "wait"
    /\ wLast' = WsEv("dial_fail", wLast.n)
    /\ UNCHANGED <<wCtx, wConn, wGen, wMissed, wOut, wSend, wWrites, wCalls>>
    /\ UNCHANGED <<wLost, wProbes>>
    /\ WsFrame

\* Reconnect: the back-off sleep before a dial
WsWait ==
    /\ wPc = "wait" /\ ~wCtx
    /\ wPc' = "dial"
    /\ wLast' = WsEv("slept", wDelay)
    /\ UNCHANGED <<wCtx, wConn, wGen, wDelay, wMissed, wOut, wSend, wWrites,
                   wCalls>>
    /\ UNCHANGED <<wLost, wProbes>>
    /\ WsFrame

\* Receive loop: a message is read; forwarded when it decodes and is not
\* self-originated
WsRead(snap) ==
    /\ wPc = "read" /\ wConn /\ ~wCtx
    /\ wOut' = IF ShouldEmit(snap, LocalId) THEN wOut \cup {wGen} ELSE wOut
    /\ wLast' = WsEv(IF ShouldEmit(snap, LocalId) THEN "emit" ELSE "drop", 0)
    /\ UNCHANGED <<wCtx, wPc, wConn, wGen, wDelay, wMissed, wSend, wWrites,
                   wCalls>>
    /\ UNCHANGED <<wLost, wProbes>>
    /\ WsFrame

\* Receive loop: the connection closes unexpectedly and the read fails
WsReadErr ==
    /\ wPc = "read" /\ wConn /\ ~wCtx
    /\ wConn' = FALSE /\ wMissed' = 0
    /\ wDelay' = wsBaseDelay
    /\ wPc' = WsAfterReadErr
    /\ wLast' = WsEv("read_err", 0)
    /\ UNCHANGED <<wCtx, wGen, wOut, wSend, wWrites, wCalls>>
    /\ wLost' = "read" /\ UNCHANGED wProbes
    /\ WsFrame

\* Keepalive: a probe is acknowledged
WsPingAcked ==
    /\ wPc = "read" /\ wConn /\ ~wCtx
    /\ wMissed' = 0
    /\ wLast' = WsEv("ping_ack", 0)
    /\ UNCHANGED <<wCtx, wPc, wConn, wGen, wDelay, wOut, wSend, wWrites,
                   wCalls>>
    /\ wProbes' = LastTwo(wProbes, "ack") /\ UNCHANGED wLost
    /\ WsFrame

\* Keepalive: a probe goes unacknowledged; the second in a row forces a
\* reconnect
WsPingMissed ==
    /\ wPc = "read" /\ wConn /\ ~wCtx
    /\ IF WsDead(wMissed + 1)
       THEN /\ wConn' = FALSE /\ wMissed' = 0
            /\ wDelay' = wsBaseDelay /\ wPc' = "wait"
            /\ wLast' = WsEv("ping_dead", wMissed + 1)
       ELSE /\ wMissed' = wMissed + 1
            /\ wLast' = WsEv("ping_miss", wMissed + 1)
            /\ UNCHANGED <<wConn, wDelay, wPc>>
    /\ UNCHANGED <<wCtx, wGen, wOut, wSend, wWrites, wCalls>>
    /\ wProbes' = LastTwo(wProbes, "miss")
    /\ wLost' = IF WsDead(wMissed + 1) THEN "ping" ELSE wLost
    /\ WsFrame

\* Send: the Snapshot is written as one message
WsSendOk ==
    /\ wPc = "read" /\ wConn
    /\ wSend' = "ok" /\ wWrites' = 1
    /\ wLast' = WsEv("write_ok", 0)
    /\ UNCHANGED <<wCtx, wPc, wConn, wGen, wDelay, wMissed, wOut, wCalls>>
    /\ UNCHANGED <<wLost, wProbes>>
    /\ WsFrame

\* Send: the write fails; the connection is torn down, a reconnect starts and
\* the error goes to the caller
WsSendErr ==
    /\ wPc = "read" /\ wConn /\ ~wCtx
    /\ wSend' = "err" /\ wWrites' = WsWritesAfterErr(1)
    /\ wConn' = FALSE /\ wMissed' = 0
    /\ wDelay' = wsBaseDelay /\ wPc' = "wait"
    /\ wLast' = WsEv("write_err", 0)
    /\ UNCHANGED <<wCtx, wGen, wOut, wCalls>>
    /\ wLost' = "write" /\ UNCHANGED wProbes
    /\ WsFrame

\* ctx is cancelled
WsCancel ==
    /\ ~wCtx /\ wPc # "idle"
    /\ wCtx' = TRUE
    /\ UNCHANGED <<wPc, wConn, wGen, wDelay, wMissed, wOut, wSend, wWrites,
                   wCalls, wLast>>
    /\ UNCHANGED <<wLost, wProbes>>
    /\ WsFrame

\* Shutdown: on cancellation the connection is released and Poll returns
WsShutdown ==
    /\ wCtx /\ wPc \in {"dial", "read", "wait"}
    /\ wConn' = FALSE /\ wPc' = "returned"
    /\ wLast' = WsEv("shutdown", 0)
    /\ UNCHANGED <<wCtx, wGen, wDelay, wMissed, wOut, wSend, wWrites, wCalls>>
    /\ UNCHANGED <<wLost, wProbes>>
    /\ WsFrame

-----------------------------------------------------------------------------
(***************************************************************************)
(* The goroutines of main.go for two clients around one relay: watcher,    *)
(* uploader, Poll and poller.  A Send and an emission of Poll are one step *)
(* each here; their own steps are in SpecSend and SpecPollBody.            *)
(***************************************************************************)

Clients == {1, 2}

\* the item lists users copy and relays deliver, as lists of payloads
Contents == { << >>, << <<97>> >>, << <<98>> >>, << <<97>>, <<98>> >>,
              << <<97, 98>> >>, << << >>, <<97>> >> }

NoSnapshot == [origin |-> 0, items |-> << >>]

RECURSIVE WriteAll(_, _)
\* part_005:28-30 the range loop of QuickKey
WriteAll(h, items) ==
    IF Len(items) = 0 THEN h
    ELSE WriteAll(ShaWrite(h, Head(items)), Tail(items))

\* part_005:23-32 QuickKey
QuickKeyOf(items) ==
    IF Len(items) = 0 THEN EmptyKey
    ELSE SumPrefix(WriteAll(ShaNew(<< >>), items))

IsPayload(payload) == Len(payload) > 0

\* clip.go:135-161, 207-238 writeSnapshot skips items with an empty payload;
\* what is put on the clipboard is read back as it is
WriteSnapshot(items) == SelectSeq(items, IsPayload)

\* lastRemoteQuick is never assigned
RememberQuickMut(last, qk) == last

\* main.go:141 lastRemoteQuick = qk
RememberQuick(last, qk) == qk

\* the watcher sends whatever the clipboard holds
WatcherSkipsMut(qk, last) == FALSE

\* main.go:115-118 qk == lastQuick: duplicate user copy
WatcherSkips(qk, last) == qk = last

MainInit ==
    /\ clipItems = [c \in Clients |-> << >>]
    /\ clipSeq = [c \in Clients |-> 0]
    /\ lastSeq = [c \in Clients |-> 0]
    /\ lastQuick = [c \in Clients |-> NoKey]
    /\ toUp = [c \in Clients |-> << >>]
    /\ fromSrv = [c \in Clients |-> << >>]
    /\ lastRemoteQuick = [c \in Clients |-> NoKey]
    /\ crashed = [c \in Clients |-> FALSE]
    /\ relaySnap = NoSnapshot
    /\ sends = [c \in Clients |-> 0]
    /\ writes = [c \in Clients |-> 0]
    /\ copies = 0
    /\ prevRecv = [c \in Clients |-> [key |-> NoKey, wrote |-> "none"]]

MainFrame == UNCHANGED <<codecVars, sendVars, pollVars, quickVars, authVars,
                         retryVars, wsVars,
                   overlapVars,
                   dibVars>>

\* the user of client c copies items to the clipboard: the one local copy
\* whose propagation is followed
LocalCopy(c, items) ==
    /\ ~crashed[c]
    /\ copies = 0
    /\ Len(WriteSnapshot(items)) > 0
    /\ copies' = copies + 1
    /\ clipItems' = [clipItems EXCEPT ![c] = WriteSnapshot(items)]
    /\ clipSeq' = [clipSeq EXCEPT ![c] = (clipSeq[c] + 1) % SeqMod]
    /\ UNCHANGED <<lastSeq, lastQuick, toUp, fromSrv, lastRemoteQuick, crashed,
                   relaySnap, sends, writes, prevRecv>>
    /\ MainFrame

\* main.go:104-129 a tick of watcher with a changed sequence number
Watcher(c) ==
    /\ ~crashed[c]
    /\ clipSeq[c] # lastSeq[c]
    /\ lastSeq' = [lastSeq EXCEPT ![c] = clipSeq[c]]
    /\ IF Len(clipItems[c]) = 0
       THEN UNCHANGED <<lastQuick, toUp>>
       ELSE IF WatcherSkips(QuickKeyOf(clipItems[c]), lastQuick[c])
            THEN UNCHANGED <<lastQuick, toUp>>
            ELSE /\ Len(toUp[c]) < ChanCap
                 /\ lastQuick' = [lastQuick EXCEPT ![c] = QuickKeyOf(clipItems[c])]
                 /\ toUp' = [toUp EXCEPT ![c] =
                               Append(@, [origin |-> c, items |-> clipItems[c]])]
    /\ UNCHANGED <<clipItems, clipSeq, fromSrv, lastRemoteQuick, crashed,
                   relaySnap, sends, writes, copies, prevRecv>>
    /\ MainFrame

\* main.go:64-76 the uploader takes a Snapshot and calls Send; on success the
\* relay's active session is this Snapshot (part_004:49-50)
Uploader(c, ok) ==
    /\ ~crashed[c]
    /\ Len(toUp[c]) > 0
    /\ toUp' = [toUp EXCEPT ![c] = Tail(@)]
    /\ sends' = [sends EXCEPT ![c] = Min(sends[c] + 1, MaxCount)]
    /\ relaySnap' = IF ok THEN Head(toUp[c]) ELSE relaySnap
    /\ UNCHANGED <<clipItems, clipSeq, lastSeq, lastQuick, fromSrv,
                   lastRemoteQuick, crashed, writes, copies, prevRecv>>
    /\ MainFrame

\* poll.go:173-178 Poll of client c has the relay's session complete and
\* sends it on out unless it is its own; the session stays on the relay and
\* is emitted again by later iterations
PollDeliver(c) ==
    /\ ~crashed[c]
    /\ relaySnap # NoSnapshot
    /\ ShouldEmit(Snap(relaySnap.origin, Len(relaySnap.items)), c)
    /\ Len(fromSrv[c]) < ChanCap
    /\ fromSrv' = [fromSrv EXCEPT ![c] = Append(@, relaySnap)]
    /\ UNCHANGED <<clipItems, clipSeq, lastSeq, lastQuick, toUp,
                   lastRemoteQuick, crashed, relaySnap, sends, writes, copies,
                   prevRecv>>
    /\ MainFrame

\* main.go:133-152 one iteration of poller: skip a repeated quick key, else
\* write the clipboard (ok: the write succeeds); the log line of a written
\* Snapshot indexes Items[0]
Poller(c, ok) ==
    /\ ~crashed[c]
    /\ Len(fromSrv[c]) > 0
    /\ fromSrv' = [fromSrv EXCEPT ![c] = Tail(@)]
    /\ LET snap == Head(fromSrv[c])
           qk   == QuickKeyOf(snap.items)
       IN IF qk = lastRemoteQuick[c]
          THEN /\ ok
               /\ prevRecv' = [prevRecv EXCEPT ![c] =
                                 [key |-> qk, wrote |-> "skipped"]]
               /\ UNCHANGED <<clipItems, clipSeq, lastRemoteQuick, crashed,
                              writes>>
          ELSE /\ lastRemoteQuick' = [lastRemoteQuick EXCEPT ![c] =
                                        RememberQuick(@, qk)]
               /\ prevRecv' = [prevRecv EXCEPT ![c] =
                                 [key |-> qk,
                                  wrote |-> IF ok THEN "written" ELSE "failed"]]
               /\ IF ok
                  THEN /\ clipItems' = [clipItems EXCEPT ![c] =
                                          WriteSnapshot(snap.items)]
                       /\ clipSeq' = [clipSeq EXCEPT ![c] =
                                        (clipSeq[c] + 1) % SeqMod]
                       /\ writes' = [writes EXCEPT ![c] =
                                       Min(writes[c] + 1, MaxCount)]
                       /\ crashed' = [crashed EXCEPT ![c] = Len(snap.items) = 0]
                  ELSE UNCHANGED <<clipItems, clipSeq, writes, crashed>>
    /\ UNCHANGED <<lastSeq, lastQuick, toUp, relaySnap, sends, copies>>
    /\ MainFrame

\* a Snapshot of another client arrives on the channel of poller
Feed(c, items) ==
    /\ ~crashed[c]
    /\ Len(fromSrv[c]) < ChanCap
    /\ fromSrv' = [fromSrv EXCEPT ![c] =
                     Append(@, [origin |-> 3 - c, items |-> items])]
    /\ UNCHANGED <<clipItems, clipSeq, lastSeq, lastQuick, toUp,
                   lastRemoteQuick, crashed, relaySnap, sends, writes, copies,
                   prevRecv>>
    /\ MainFrame

-----------------------------------------------------------------------------
(***************************************************************************)
(* The Sends of two clients whose POSTs interleave at the relay.  Every    *)
(* POST is answered 2xx, so both Sends return nil.                         *)
(***************************************************************************)

\* part_004:50 as documented: the first chunk of a new cid flushes the previous
\* snapshot, a later chunk of another cid is not stored
RelayAcceptFirstChunk(r, cid, total, idx, data) ==
    IF cid # r.cid /\ idx = 0
    THEN [cid |-> cid, total |-> total, parts |-> [j \in {idx} |-> data]]
    ELSE IF cid # r.cid THEN r
    ELSE [r EXCEPT !.parts = RelayPut(r.parts, [idx |-> idx, data |-> data])]

\* part_004:165-178 POST /clip: a chunk of another cid than snap_id starts a
\* new snapshot, a chunk of snap_id is stored
RelayAccept(r, cid, total, idx, data) ==
    IF cid # r.cid
    THEN [cid |-> cid, total |-> total, parts |-> [j \in {idx} |-> data]]
    ELSE [r EXCEPT !.parts = RelayPut(r.parts, [idx |-> idx, data |-> data])]

\* a body of n bytes that tells the clients apart
OverlapBody(c, n) == [i \in 1..n |-> c - 1]

OverlapInit ==
    /\ oChunks = [c \in Clients |-> << >>]
    /\ oNext = [c \in Clients |-> 0]
    /\ oRelay = NoState

OverlapFrame == UNCHANGED <<codecVars, sendVars, pollVars, quickVars,
                            authVars, retryVars, wsVars, mainVars,
                   dibVars>>

\* poll.go:52-64 client c calls Send: the body is sliced, the cid is new
OverlapSend(c, p, m) ==
    /\ oChunks[c] = << >>
    /\ Len(p) > 0
    /\ oChunks' = [oChunks EXCEPT ![c] = Split(p, m)]
    /\ UNCHANGED <<oNext, oRelay>>
    /\ OverlapFrame

\* poll.go:66-76 the next chunk of client c is POSTed and answered 2xx
OverlapPost(c) ==
    /\ oNext[c] < Len(oChunks[c])
    /\ oRelay' = RelayAccept(oRelay, c, Len(oChunks[c]), oNext[c],
                             oChunks[c][oNext[c] + 1])
    /\ oNext' = [oNext EXCEPT ![c] = oNext[c] + 1]
    /\ UNCHANGED oChunks
    /\ OverlapFrame

-----------------------------------------------------------------------------
-----------------------------------------------------------------------------
(***************************************************************************)
(* DIBToPNG on a 32-bit DIB with a 40-byte header, one pixel wide: a row   *)
(* of the pixel data is its one pixel, a number from 1 up.  The biHeight   *)
(* field is a word of WordBits bits; int is as wide as the field in a      *)
(* 32-bit build (GOARCH=386) and twice as wide in a 64-bit build.          *)
(***************************************************************************)

\* the widths of int the builds of the package have
IntWidths == {WordBits, 2 * WordBits}

\* the field read as a signed word (the LONG biHeight of BITMAPINFOHEADER)
Signed(u) == IF u >= Pow2(WordBits - 1) THEN u - Pow2(WordBits) ELSE u

\* image.go:70 int(binary.LittleEndian.Uint32(dib[8:12])): the unsigned word
\* converted to an int of the build's width, wrapping when it does not fit
ToInt(u, bits) == IF u >= Pow2(bits - 1) THEN u - Pow2(bits) ELSE u

\* image.go:79 -height in an int of the build's width
Negate(h, bits) == IF h = -Pow2(bits - 1) THEN h ELSE -h

\* image.go:77 bottomUp := height > 0
BottomUpOf(u, bits) == ToInt(u, bits) > 0

\* image.go:78-80 if height < 0 { height = -height }
HeightOf(u, bits) ==
    IF ToInt(u, bits) < 0 THEN Negate(ToInt(u, bits), bits) ELSE ToInt(u, bits)

\* image.go:91-94 srcY of image row y
SrcY(y, height, bottomUp) == IF bottomUp THEN height - 1 - y ELSE y

DibInit ==
    /\ dPc = "idle" /\ dBuild = WordBits /\ dField = 0 /\ dData = << >>
    /\ dHeight = 0 /\ dBottomUp = FALSE /\ dY = 0 /\ dImg = << >>

DibFrame == UNCHANGED <<codecVars, sendVars, pollVars, quickVars, authVars,
                        retryVars, wsVars, mainVars, overlapVars>>

\* image.go:59-88 the header is read and the image allocated; image.NewRGBA
\* panics on a rectangle whose height does not fit
DibStart(bits, field, n) ==
    /\ dPc = "idle"
    /\ dBuild' = bits /\ dField' = field
    /\ dData' = [i \in 1..n |-> i]
    /\ dHeight' = HeightOf(field, bits)
    /\ dBottomUp' = BottomUpOf(field, bits)
    /\ dY' = 0
    /\ dImg' = [i \in 1..(IF dHeight' < 0 THEN 0 ELSE dHeight') |-> 0]
    /\ dPc' = IF dHeight' < 0 THEN "panic" ELSE "rows"
    /\ DibFrame

\* image.go:90-110 one iteration of the row loop: a source row outside the
\* data ends the loop, else the row is copied
DibRow ==
    /\ dPc = "rows"
    /\ dY < dHeight
    /\ IF SrcY(dY, dHeight, dBottomUp) >= Len(dData)
       THEN /\ dPc' = "done"
            /\ UNCHANGED <<dY, dImg>>
       ELSE /\ dImg' = [dImg EXCEPT ![dY + 1] =
                          dData[SrcY(dY, dHeight, dBottomUp) + 1]]
            /\ dY' = dY + 1
            /\ UNCHANGED dPc
    /\ UNCHANGED <<dBuild, dField, dData, dHeight, dBottomUp>>
    /\ DibFrame

\* image.go:90, 112-116 the loop is over and the image is encoded
DibEncode ==
    /\ dPc = "rows"
    /\ ~(dY < dHeight)
    /\ dPc' = "done"
    /\ UNCHANGED <<dBuild, dField, dData, dHeight, dBottomUp, dY, dImg>>
    /\ DibFrame

\* clip.go:252 the caller has the result (or the process has ended) and the
\* next DIB is converted
DibReturn ==
    /\ dPc \in {"done", "panic"}
    /\ dPc' = "idle" /\ dBuild' = WordBits /\ dField' = 0 /\ dData' = << >>
    /\ dHeight' = 0 /\ dBottomUp' = FALSE /\ dY' = 0 /\ dImg' = << >>
    /\ DibFrame

Init ==
    /\ CodecInit /\ SendInit /\ PollInit /\ QuickInit /\ AuthInit
    /\ RetryInit /\ WsInit /\ MainInit /\ OverlapInit /\ DibInit

NextCodec ==
    \/ \E p \in Payloads, m \in 1..MaxPartSize : CodecSplit(p, m)
    \/ \E i \in 0..MaxPayload : CodecStore(i)
    \/ CodecAssemble
    \/ CodecReset

NextSend ==
    \/ \E n \in BodyLens : SendTooLarge(n)
    \/ \E n \in BodyLens : SendStart(n)
    \/ SendSlice
    \/ \E cid \in Cids : SendFirstPost(cid)
    \/ \E st \in Statuses : PostOk(st)
    \/ \E st \in Statuses : PostFail(st)
    \/ \E r \in 0..(JitterSteps - 1) : Backoff(r)
    \/ SendReturn

NextRelay ==
    \/ \E u \in Uploads, k \in 1..2 : RelayStore(u, k)
    \/ RelayFlush

\* Poll as the code runs it: discover decodes with json.Decode
NextPoll ==
    \/ NextRelay
    \/ Cancel
    \/ PollTop
    \/ DiscoverFail
    \/ DiscoverOk
    \/ PollSleep

\* the loop body of Poll on the discover result part_004 documents
NextPollBody ==
    \/ NextRelay
    \/ Cancel
    \/ PollTop
    \/ DiscoverFail
    \/ DiscoverOkFields
    \/ FetchSkip
    \/ FetchOk
    \/ FetchFail
    \/ PollAssemble
    \/ PollEmit
    \/ PollSleep
    \/ OutRecv

\* the steps of the goroutine that runs Poll
PollStep ==
    \/ PollTop
    \/ DiscoverFail
    \/ DiscoverOkFields
    \/ FetchSkip
    \/ FetchOk
    \/ FetchFail
    \/ PollAssemble
    \/ PollEmit
    \/ PollSleep

\* the steps of a caller's Send
SendStep ==
    \/ \E n \in ConcBodyLens : SendTooLarge(n)
    \/ \E n \in ConcBodyLens : SendStart(n)
    \/ SendSlice
    \/ \E cid \in Cids : SendFirstPost(cid)
    \/ \E st \in ConcStatuses : PostOk(st)
    \/ \E st \in ConcStatuses : PostFail(st)
    \/ \E r \in ConcJitter : Backoff(r)
    \/ SendReturn

\* main.go:64-80 Send is called from the watcher goroutine while Poll runs in
\* its own goroutine on the same client
NextSendPoll ==
    \/ SendStep
    \/ \E u \in ConcUploads, k \in 1..2 : RelayStore(u, k)
    \/ RelayFlush
    \/ Cancel
    \/ PollStep
    \/ OutRecv

\* the loop body of Poll against a relay that lets the total of a session change
NextPollTotals ==
    \/ \E u \in TotalUploads, k \in 1..2 : RelayStore(u, k)
    \/ RelayFlush
    \/ \E t \in Totals : RelayTotal(t)
    \/ Cancel
    \/ PollStep
    \/ OutRecv

\* poller of client 1 on any sequence of Snapshots
NextPoller ==
    \/ \E items \in Contents : Feed(1, items)
    \/ \E ok \in BOOLEAN : Poller(1, ok)

\* the two clients after one local copy
NextSystem ==
    \/ \E c \in Clients, items \in Contents : LocalCopy(c, items)
    \/ \E c \in Clients : Watcher(c)
    \/ \E c \in Clients, ok \in BOOLEAN : Uploader(c, ok)
    \/ \E c \in Clients : PollDeliver(c)
    \/ \E c \in Clients, ok \in BOOLEAN : Poller(c, ok)

NextOverlap ==
    \/ \E c \in Clients, n \in 1..MaxPayload, m \in 1..MaxPartSize :
         OverlapSend(c, OverlapBody(c, n), m)
    \/ \E c \in Clients : OverlapPost(c)

NextQuick ==
    \/ QuickKeyEmpty
    \/ \E items \in ItemSeqs : QuickKeyStart(items)
    \/ QuickKeyWrite
    \/ QuickKeySum

NextAuth ==
    \/ \E keyHex \in KeyStrings : NewShared(keyHex)
    \/ \E keyHex \in KeyStrings : NewSharedErr(keyHex)
    \/ \E now \in SWords : BuildAuthHeader(now)

NextRetry ==
    \/ \E p \in Payloads, m \in 1..MaxPartSize : RetrySend(p, m)
    \/ RetryPostAcked
    \/ RetryPostLost
    \/ RetryPostFailed

\* the messages a connection delivers
WsMessages == {Snap("other", 1), Snap(LocalId, 1), NilSnap}

\* the steps of the goroutine that runs the stream transport's Poll
WsPollStep ==
    \/ WsDialOk
    \/ WsDialFail
    \/ WsWait
    \/ WsReadErr
    \/ WsShutdown

NextWs ==
    \/ WsPoll
    \/ WsPollStep
    \/ \E snap \in WsMessages : WsRead(snap)
    \/ WsPingAcked
    \/ WsPingMissed
    \/ WsSendOk
    \/ WsSendErr
    \/ WsCancel

NextDib ==
    \/ \E bits \in IntWidths, field \in 0..(Pow2(WordBits) - 1), n \in 0..MaxRows :
         DibStart(bits, field, n)
    \/ DibRow
    \/ DibEncode
    \/ DibReturn

vars == <<codecVars, sendVars, pollVars, quickVars, authVars, retryVars,
          wsVars, mainVars, overlapVars, dibVars>>

SpecCodec    == Init /\ [][NextCodec]_vars
SpecSend     == Init /\ [][NextSend]_vars
SpecPoll     == Init /\ [][NextPoll]_vars
SpecPollBody == Init /\ [][NextPollBody]_vars
SpecQuick    == Init /\ [][NextQuick]_vars
SpecAuth     == Init /\ [][NextAuth]_vars
SpecRetry    == Init /\ [][NextRetry]_vars
SpecSendPoll == Init /\ [][NextSendPoll]_vars
SpecWs       == Init /\ [][NextWs]_vars
SpecPoller   == Init /\ [][NextPoller]_vars
SpecSystem   == Init /\ [][NextSystem]_vars
SpecOverlap  == Init /\ [][NextOverlap]_vars
SpecDib      == Init /\ [][NextDib]_vars
SpecPollTotals == Init /\ [][NextPollTotals]_vars

\* the loop body with the goroutine of Poll scheduled: a step of Poll that stays
\* possible is taken (requests carry ctx and a client timeout, sleeps end);
\* nothing is assumed of the relay, of cancel() or of the reader of the channel
SpecPollBodyFair == SpecPollBody /\ WF_vars(PollStep)

\* the goroutine of the stream transport's Poll is scheduled
SpecWsFair == SpecWs /\ WF_vars(WsPollStep)

-----------------------------------------------------------------------------
(* Properties of the codec and of Send *)

CeilDiv(a, b) == (a + b - 1) \div b

\* C4: split as Send does, then assemble by index: the result is the payload,
\* whatever the order of arrival; every slice has at most M bytes and zero
\* slices come from the empty payload only.
C4_RoundTrip ==
    /\ cPc = "assembled" => cFull = cPayload
    /\ cPc = "split" =>
         /\ \A k \in 1..Len(cChunks) : Len(cChunks[k]) \in 1..cSize
         /\ (cTotal = 0 <=> cPayload = << >>)

\* C4 witness: three parts with distinct contents arrived as 2, 0, 1
C4_Witness ==
    /\ cPc = "assembled"
    /\ cArrived = <<2, 0, 1>>
    /\ cPayload = <<0, 1, 1>>
    /\ cTotal = 3
    /\ cFull = cPayload

\* C5: every POST of one Send carries the cid and the total of the first POST
\* of that Send; the total is the number of chunks and is not 0.
C5_SameCidAndTotal ==
    sReq # NoReq =>
        /\ sReq.cid = sFirst.cid /\ sReq.cid = sCid
        /\ sReq.total = sFirst.total
        /\ sReq.total = CeilDiv(sLen, chunkSize)
        /\ sReq.total # 0

\* C5 witness: a retry of a later chunk of a three-chunk Send
C5_Witness ==
    /\ sReq # NoReq /\ sReq.idx = 1 /\ sRetry >= 1 /\ sReq.total = 3

\* C6: a POST of index k is in flight only when exactly the chunks 0..k-1
\* have received a 2xx response.
C6_InOrder == sReq # NoReq => sReq.idx = sAcked

\* C6 witness: chunk 1 is posted after chunk 0 failed once and was then accepted
C6_Witness == sReq # NoReq /\ sReq.idx = 1 /\ sAcked = 1 /\ sFailed >= 1

\* C7: every POST body has at most chunkSize bytes, every chunk but the last
\* exactly chunkSize and the last the remainder; with no failed POST, a
\* successful Send issued exactly ceil(L / chunkSize) POSTs; each carries the cid.
C7_ChunkCount ==
    /\ sReq # NoReq =>
         /\ sReq.len \in 1..chunkSize
         /\ sReq.idx < CeilDiv(sLen, chunkSize) - 1 => sReq.len = chunkSize
         /\ sReq.idx = CeilDiv(sLen, chunkSize) - 1 =>
                sReq.len = sLen - chunkSize * (CeilDiv(sLen, chunkSize) - 1)
         /\ sReq.cid = sCid /\ sReq.cid \in Cids
    /\ (sPc = "done" /\ sResult = NoErr /\ sFailed = 0) =>
         sPosts = CeilDiv(sLen, chunkSize)

\* C7 witness: 700 KiB sent in three POSTs, the last one of 100 KiB in flight before
C7_Witness ==
    /\ sPc = "done" /\ sResult = NoErr /\ sFailed = 0
    /\ sLen = 700 * 1024 /\ sPosts = 3

\* C8 as stated: at most 5 POSTs of one chunk
C8_AtMostFiveAttempts == sTries <= 5

\* C8 amended: at most maxRetries + 1 = 6 POSTs of one chunk (the first attempt
\* and five retries); Send gives up on a chunk exactly after the sixth failure.
C8_AtMostSixAttempts ==
    /\ sTries <= maxRetries + 1
    /\ (sPc = "done" /\ sResult.kind \in {"transport", "status"}) =>
          sTries = maxRetries + 1

\* C8 witness: Send returned after the sixth failed POST of a chunk
C8_Witness ==
    /\ sPc = "done" /\ sResult.kind = "status" /\ sTries = 6 /\ sFailed = 6

\* Send has returned the error of a chunk whose retries are exhausted
SendGaveUp == sPc = "done" /\ sResult.kind \in {"transport", "status"}

\* C9: when the retries of a chunk are exhausted, Send returns the error of
\* the last attempt of that chunk; no request is in flight, every POST issued
\* was answered, no later index was posted, and the next step issues none.
C9_AbortOnExhaustion ==
    /\ [](SendGaveUp =>
            /\ sResult = AttemptErr(sIdx, sTries - 1, sResult.status)
            /\ sResult.retry = maxRetries
            /\ sReq = NoReq
            /\ sAcked = sIdx
            /\ sPosts = sAcked + sFailed)
    /\ [][SendGaveUp => (sReq' = NoReq /\ sPc' = "idle")]_vars

\* C9 witness: chunk 1 of three exhausted its retries after chunk 0 was accepted
C9_Witness ==
    /\ SendGaveUp /\ sIdx = 1 /\ sAcked = 1 /\ Len(sChunks) = 3
    /\ sResult.status = 500

\* C10: a body over bodyCap is rejected with no request issued; a body of
\* bodyCap bytes or less is not rejected by the cap.
C10_SizeCap ==
    /\ (sPc # "idle" /\ sLen > bodyCap) =>
          (sPc = "done" /\ sResult = ErrCap /\ sPosts = 0 /\ sReq = NoReq)
    /\ (sPc # "idle" /\ sLen <= bodyCap) =>
          (sResult # ErrCap /\ (sPc # "slice" => sPosts >= 1))

\* C10 witness: a body of bodyCap + 1 bytes was rejected
C10_Witness ==
    /\ sPc = "done" /\ sLen = 32 * 1024 * 1024 + 1 /\ sResult = ErrCap
    /\ sPosts = 0

\* a body of exactly bodyCap bytes went out in full
C10_WitnessAtCap ==
    /\ sPc = "done" /\ sLen = 32 * 1024 * 1024 /\ sResult = NoErr

-----------------------------------------------------------------------------
(* Properties of Poll *)

\* C1: no Snapshot whose origin is the local id is ever on the output channel
\* or being handed to it.
C1_NoSelfOrigin ==
    /\ \A k \in 1..Len(out) : out[k].origin # LocalId
    /\ pPc = "emit" => pSnap.origin # LocalId

\* C1 witness: the session of the local client was fetched in full, decoded
\* and dropped; nothing went to the channel and the state is reset
C1_Witness ==
    /\ pPc = "sleep" /\ pAdv.cid = 2 /\ ~pFetchFail
    /\ pLastAsm = Snap(LocalId, 1)
    /\ current = NoState /\ ~pEmitIter /\ out = << >>

\* at discover the relay advertised a full session (total N > 0, have = 0..N-1)
\* whose parts make a valid Snapshot of another origin
AdvComplete ==
    /\ pAdv.cid # 0 /\ pAdv.total > 0
    /\ DOMAIN pAdv.parts = 0..(pAdv.total - 1)
    /\ JsonUnmarshal(ConcatIndexed(pAdv.parts, pAdv.total)).ok
    /\ JsonUnmarshal(ConcatIndexed(pAdv.parts, pAdv.total)).origin # LocalId

\* C2: an iteration whose discover was answered with such a session and whose
\* fetches all succeeded does not reach its idle sleep before the Snapshot is
\* on the output channel.
C2_EmitsAdvertised == (pPc = "sleep" /\ AdvComplete /\ ~pFetchFail) => pEmitIter

\* C3: no session's Snapshot is put on the output channel more than once.
C3_EmittedOnce == \A c \in PollCids : pEmits[c] <= 1


-----------------------------------------------------------------------------
(* Properties of the loop body of Poll *)

AsmEvents == {"asm_ok", "asm_nil"}

\* the step just taken is the one PollAssemble takes on a complete part count
AssemblyStep == pLast' # pLast /\ pLast'.ev \in AsmEvents

\* C11: Poll attempts assembly, and hands on a decoded Snapshot, only when the
\* held indices are exactly 0..total-1 with total > 0
C11_ExactIndexSet ==
    [][AssemblyStep =>
         (current.total > 0 /\ DOMAIN current.parts = 0..(current.total - 1))]_vars

\* Poll is handing on a Snapshot decoded from the held indices {0, 7} of a
\* session of total 2
C11_Refuted ==
    /\ pPc = "emit" /\ pSnap.ok
    /\ current.total = 2 /\ DOMAIN current.parts = {0, 7}


\* C12: when the parts of a complete session do not decode, Poll puts nothing
\* on the channel, resets current and goes on to the sleep of the loop
C12_MalformedDropped ==
    [][(pLast' # pLast /\ pLast'.ev = "asm_nil") =>
         (out' = out /\ current' = NoState /\ pSnap' = pSnap /\ pPc' = "sleep")]_vars

\* the malformed session 4 was fetched whole, failed to decode and was dropped
C12_Witness ==
    /\ pLast.ev = "asm_nil" /\ meta.cid = 4 /\ Len(meta.have) = 2
    /\ pLastAsm = NilSnap /\ current = NoState /\ pPc = "sleep" /\ ~ctxDone


\* C13: a discover that reports another session makes Poll track it with no
\* parts; every held part was served from the session Poll tracks, and what
\* Poll hands on was assembled from parts of that one session
C13_OneSession ==
    /\ \A j \in DOMAIN current.parts : pSrc[j] = current.cid
    /\ (pPc = "fetch" /\ meta.cid # 0) => current.cid = meta.cid
    /\ pLast.ev = "discover_new" => (current.cid = meta.cid /\ current.parts = EmptyParts)
    /\ pPc = "emit" => current.cid = meta.cid

\* Poll held one part of an incomplete session when discover reported session
\* 4: it now tracks session 4 and holds nothing
C13_Witness ==
    /\ pLast = Ev("discover_new", 1) /\ meta.cid = 4
    /\ current = [cid |-> 4, total |-> 2, parts |-> EmptyParts]


FetchEvents == {"fetch_ok", "fetch_err"}

C14_WitnessFailed ==
    /\ pLast = Ev("fetch_err", 1) /\ DOMAIN current.parts = {0}
    /\ pPc = "fetch" /\ pFetchFail


\* C15: Poll returns only from the test of ctx.Done() at the top of the loop
\* and only when ctx is cancelled; a failed discover leaves current as it was
\* and leads to the sleep of the loop
C15_ReturnsOnlyOnCancel ==
    /\ [](pPc = "returned" => ctxDone)
    /\ [][(pPc # "returned" /\ pPc' = "returned") => (pPc = "top" /\ ctxDone)]_vars
    /\ [][(pLast' # pLast /\ pLast'.ev = "discover_err") =>
            (current' = current /\ pPc' = "sleep")]_vars

\* discover failed while part 0 of session 1 was held; Poll is not cancelled
\* and has gone to the sleep of the loop with the part still held
C15_Witness ==
    /\ pLast.ev = "discover_err" /\ pPc = "sleep" /\ ~ctxDone
    /\ current.cid = 1 /\ DOMAIN current.parts = {0}

\* Poll has returned after a cancellation
C15_WitnessReturned == pPc = "returned" /\ ctxDone /\ pLast.ev = "return"


\* C16: once ctx is cancelled, Poll returns
C16_CancelReturns == ctxDone ~> (pPc = "returned")

\* ctx is cancelled while Poll waits to send on a full channel
C16_Blocked == ctxDone /\ pPc = "emit" /\ Len(out) = OutCap


\* C17: Poll never puts a Snapshot with zero Items on the channel
C17_NoZeroItems ==
    /\ \A k \in 1..Len(out) : out[k].items > 0
    /\ pPc = "emit" => pSnap.items > 0

\* a Snapshot of another origin with zero Items is in the channel
C17_Refuted == out # << >> /\ out[1] = Snap("other", 0)


-----------------------------------------------------------------------------
(* Properties of QuickKey *)

RECURSIVE Flatten(_)
\* the payloads of an item sequence, one after the other
Flatten(items) ==
    IF items = << >> THEN << >> ELSE Head(items) \o Flatten(Tail(items))

\* QuickKey has returned, and had returned for a call before
TwoCalls == qPc = "done" /\ qPrev # NoCall

\* C18: two calls on equal item sequences return equal keys; the key is the
\* string "empty" exactly when there are no items, and has 8 bytes otherwise
C18_KeyShape ==
    /\ (TwoCalls /\ qPrev.items = qItems) => qPrev.key = qKey
    /\ qPc = "done" => (qKey = EmptyKey <=> qItems = << >>)
    /\ (qPc = "done" /\ qItems # << >>) => qKey.size = 8

\* QuickKey was called twice on the payloads "ab", "b" and returned the same
\* 8-byte key
C18_Witness ==
    /\ TwoCalls /\ qItems = <<<<97, 98>>, <<98>>>> /\ qPrev.items = qItems
    /\ qKey = qPrev.key /\ qKey.size = 8

\* QuickKey was called with no items after a call with items
C18_WitnessEmpty ==
    /\ TwoCalls /\ qItems = << >> /\ qKey = EmptyKey /\ qPrev.items # << >>

\* C19: non-empty item sequences that differ have different keys
C19_DistinctKeys ==
    (TwoCalls /\ qItems # << >> /\ qPrev.items # << >> /\ qPrev.items # qItems)
       => qPrev.key # qKey

\* C19 as it holds: non-empty item sequences have the same key exactly when
\* their payloads, written one after the other, are the same bytes
C19_DistinctConcat ==
    (TwoCalls /\ qItems # << >> /\ qPrev.items # << >>)
       => (qPrev.key = qKey <=> Flatten(qPrev.items) = Flatten(qItems))

\* the payloads "ab", "a" and then "a", "ba": same bytes, same key
C19_Witness ==
    /\ TwoCalls /\ qPrev.items = <<<<97, 98>>, <<97>>>>
    /\ qItems = <<<<97>>, <<98, 97>>>> /\ qKey = qPrev.key

\* the payloads "ab", "a" and then "ab", "b": different bytes, different keys
C19_WitnessDiffer ==
    /\ TwoCalls /\ qPrev.items = <<<<97, 98>>, <<97>>>>
    /\ qItems = <<<<97, 98>>, <<98>>>> /\ qKey # qPrev.key

\* the payloads "a" and then "a", "": one more empty payload, same key
C19_WitnessEmptyItem ==
    /\ TwoCalls /\ qPrev.items = <<<<97>>>>
    /\ qItems = <<<<97>>, << >>>> /\ qKey = qPrev.key

-----------------------------------------------------------------------------
(* Properties of buildAuthHeader *)

\* C20: the header decodes to (ts, ts_enc) with ts the time of building and
\* the bits of ts_enc those of ts XOR key64; XOR with key64 gives ts back
C20_XorToken ==
    aHdr # NoHdr =>
      LET tok == DecodeToken(aHdr)
      IN  /\ tok.ts = aNow
          /\ tok.ts \in SWords /\ tok.ts_enc \in SWords
          /\ ToUnsigned(tok.ts_enc) = XorBits(ToUnsigned(tok.ts), aKey, WordBits)
          /\ XorBits(ToUnsigned(tok.ts_enc), aKey, WordBits) = ToUnsigned(tok.ts)
          /\ \A b \in 0..(WordBits - 1) :
               (ToUnsigned(tok.ts_enc) \div Pow2(b)) % 2 =
                 IF (ToUnsigned(tok.ts) \div Pow2(b)) % 2 = (aKey \div Pow2(b)) % 2
                 THEN 0 ELSE 1

\* a header built with a key whose top bit is set, at a negative time, with
\* ts_enc of the other sign
C20_Witness ==
    /\ aHdr # NoHdr /\ aKey = Pow2(WordBits) - 3 /\ aNow = 0 - 2
    /\ DecodeToken(aHdr) = [ts |-> 0 - 2, ts_enc |-> 3]

\* a header built at a positive time
C20_WitnessPositive ==
    /\ aHdr # NoHdr /\ aKey = 5 /\ aNow = 6 /\ DecodeToken(aHdr).ts_enc = 3


\* a key string of exactly 16 hex digits
SixteenHexDigits(str) == Len(str) = 16 /\ \A i \in 1..16 : str[i] \in HexDigits

C21_WitnessTestKey == aPc = "failed" /\ aKeyHex = TestKey

\* a client constructed with 16 hex digits has built a header
C21_WitnessReady == aPc = "ready" /\ aKeyHex = KeyOfWord(5) /\ aHdr # NoHdr


-----------------------------------------------------------------------------
(* Properties of Send against a storing relay *)

\* C22: a chunk POSTed again after a lost response leaves the relay's
\* session as it was, every stored part is the chunk of its index, and when
\* Send is done the stored parts assemble to the body
C22_IdempotentRetry ==
    /\ [](\A j \in DOMAIN uStore :
            j \in 0..(Len(uChunks) - 1) /\ uStore[j] = uChunks[j + 1])
    /\ [](uPc = "done" =>
            (/\ Complete(uStore, Len(uChunks))
             /\ Assemble([cid |-> 1, total |-> Len(uChunks), parts |-> uStore])
                  = JsonUnmarshal(uPayload)
             /\ ConcatIndexed(uStore, Len(uChunks)) = uPayload))
    /\ [][(uDup' # uDup /\ uDup \subseteq uDup') => uStore' = uStore]_vars

\* Send is done with a body of three chunks of which chunk 1 was stored twice
C22_Witness ==
    /\ uPc = "done" /\ uDup = {1} /\ Len(uChunks) = 3
    /\ uPayload = <<0, 1, 1>> /\ ConcatIndexed(uStore, 3) = uPayload


-----------------------------------------------------------------------------
(* Properties of a Send that runs while Poll runs *)

\* C23: in every interleaving of the steps of a Send with the steps of Poll,
\* the chunk set of Poll changes only in a step of Poll: no step that moves
\* Send changes it
C23_SendLeavesPollState ==
    [][current' # current =>
         (/\ UNCHANGED sendVars
          /\ pPc \in {"discover", "fetch", "assemble", "emit"}
          /\ pPc' # pPc \/ pLast' # pLast \/ pK' # pK)]_vars

\* Send is between two attempts of its second chunk while Poll holds a part
C23_Witness ==
    /\ sPc = "post" /\ sIdx = 1 /\ sRetry > 0
    /\ current.cid = 1 /\ DOMAIN current.parts = {0}


-----------------------------------------------------------------------------
(* Properties of the stream transport *)

WsDialEvents  == {"dial_ok", "dial_fail"}
BackoffWindow == wsBaseDelay..wsMaxDelay

C24_WitnessDial ==
    wLost = "read" /\ wGen = 2 /\ wLast = WsEv("dial_ok", wsBaseDelay)

\* C25: a write that fails makes Send return an error after that one write,
\* with the connection torn down and a reconnect under way
C25_WriteFailure ==
    /\ [](wSend = "err" => wWrites = 1)
    /\ [][(wLast' # wLast /\ wLast'.ev = "write_err")
            => (/\ wConn /\ ~wConn' /\ wSend' = "err" /\ wWrites' = 1
                /\ wPc' = "wait" /\ wDelay' = wsBaseDelay)]_vars

\* Send returned an error after a failed write
C25_Witness ==
    wLast.ev = "write_err" /\ wSend = "err" /\ ~wConn /\ wPc = "wait"

\* the reconnect the failed write triggered succeeded
C25_WitnessReconnected ==
    wLost = "write" /\ wGen = 2 /\ wConn /\ wSend = "err"

\* C26: the connection is given up by the keepalive exactly when the last two
\* probes of the connection both went unacknowledged; a missed probe followed
\* by an acknowledged one leaves the connection up
C26_TwoMissedProbes ==
    /\ [](wConn => wProbes # <<"miss", "miss">>)
    /\ [][(wLast' # wLast /\ wLast'.ev = "ping_dead")
            => (/\ wProbes' = <<"miss", "miss">>
                /\ wConn /\ ~wConn' /\ wPc' = "wait")]_vars
    /\ [][(wProbes' # wProbes /\ wProbes' # << >>
             /\ wProbes' # <<"miss", "miss">>) => wConn']_vars

\* the keepalive gave the connection up
C26_Witness ==
    wLast.ev = "ping_dead" /\ wProbes = <<"miss", "miss">> /\ ~wConn

\* a missed probe was followed by an acknowledged one
C26_WitnessMissAck ==
    wProbes = <<"miss", "ack">> /\ wConn /\ wLast.ev = "ping_ack"

C27_WitnessCapped ==
    wLast = WsEv("dial_fail", wsMaxDelay) /\ wDelay = wsMaxDelay


-----------------------------------------------------------------------------
(* Properties of the reset at the end of an assembly *)

\* Poll is between the end of one iteration and the discover of the next
BetweenIterations == pPc \in {"sleep", "top", "discover"}

\* C28: once the assembly of a complete session is over (the Snapshot sent,
\* dropped as self-originated or not decoded), the chunk set is empty, it stays
\* so up to the next discover, and no complete session is ever carried into
\* an iteration
C28_ResetAfterAssembly ==
    /\ []((pLast.ev \in {"asm_nil", "emit"}
             \/ (pLast.ev = "asm_ok" /\ pPc # "emit")) => current = NoState)
    /\ [][(pLast.ev \in AsmEvents \cup {"emit"} /\ pPc \in {"sleep", "top"})
            => current' = NoState]_vars
    /\ [](BetweenIterations => ~Complete(current.parts, current.total))

\* a self-originated Snapshot was assembled and dropped
C28_Witness ==
    /\ pLast.ev = "asm_ok" /\ pLastAsm = Snap(LocalId, 1)
    /\ pPc = "sleep" /\ current = NoState

\* a complete session did not decode
C28_WitnessNil ==
    pLast.ev = "asm_nil" /\ pLastAsm = NilSnap /\ pPc = "sleep"
      /\ current = NoState

\* a Snapshot was sent on out
C28_WitnessEmitted ==
    pLast.ev = "emit" /\ pPc = "sleep" /\ current = NoState /\ Len(out) > 0

\* the empty chunk set reached the next discover
C28_WitnessNextDiscover ==
    pPc = "discover" /\ current = NoState /\ pLast.ev = "top"
      /\ \E c \in PollCids : pEmits[c] > 0


-----------------------------------------------------------------------------
(* Properties of the back-off of postChunkWithRetry *)

RECURSIVE PowOf(_, _)
PowOf(b, n) == IF n = 0 THEN 1 ELSE b * PowOf(b, n - 1)

\* min(100 ms * 1.5^(k-1), 2 s) in ns; baseDelay is a multiple of 2^(k-1)
\* for every k the retry loop reaches
NominalDelay(k) ==
    Min((baseDelay \div PowOf(2, k - 1)) * PowOf(3, k - 1), maxDelay)

\* 80% to 120% of a delay
JitterWindow(d) == ((d \div 10) * 8)..((d \div 10) * 12)

\* C29: the delay slept before the k-th retry is drawn around
\* min(100 ms * 1.5^(k-1), 2 s), the sleep lies within 80% to 120% of it, the
\* delay never exceeds 2 s, a retry follows every sleep and the last attempt
\* is followed by none
C29_BackoffDelays ==
    /\ [](sPc = "backoff" =>
            (sRetry < maxRetries /\ sDelay = NominalDelay(sRetry + 1)))
    /\ [](sDelay <= maxDelay)
    /\ [][(sPc = "backoff" /\ sPc' # "backoff")
            => (/\ sSlept' \in JitterWindow(NominalDelay(sRetry'))
                /\ sPc' = "post" /\ sRetry' = sRetry + 1)]_vars
    /\ [][(sPc = "post" /\ sRetry = maxRetries) => sSlept' = 0]_vars
    /\ [](sSlept # 0 => (sPc = "post" /\ sRetry >= 1))

\* the fifth retry is in flight after a sleep of 110% of 506.25 ms
C29_Witness ==
    sPc = "post" /\ sRetry = maxRetries /\ sSlept = 556875000
      /\ sDelay = 759375000

\* the sixth attempt failed and Send returned without another sleep
C29_WitnessNoSleep ==
    sPc = "done" /\ sResult # NoErr /\ sRetry = maxRetries /\ sSlept = 0
      /\ sTries = maxRetries + 1


-----------------------------------------------------------------------------
(* Properties of the declared total of a session *)

\* C30: while Poll tracks a cid, the total it holds is the one of the discover
\* response that made it track the cid, whatever totals later responses carry
C30_TotalFixed ==
    /\ [][(current.cid # 0 /\ current'.cid = current.cid)
            => current'.total = current.total]_vars
    /\ [][(current'.cid # 0 /\ current'.cid # current.cid)
            => (current'.total = meta'.total /\ meta'.cid = current'.cid)]_vars

\* a discover of the tracked cid carried another total than the one held
C30_Witness ==
    /\ pPc = "fetch" /\ pLast.ev = "discover_ok"
    /\ meta.cid = current.cid /\ meta.total # current.total
    /\ current.total = 2 /\ meta.total = 1


-----------------------------------------------------------------------------
(* Properties of poller and of the two clients *)

\* poller of client c takes the Snapshot at the head of its channel
PollerTakes(c) == Len(fromSrv[c]) > 0 /\ fromSrv'[c] = Tail(fromSrv[c])

\* C31: a Snapshot whose quick key is that of the Snapshot poller received
\* just before is not written to the clipboard, and a Snapshot with another
\* quick key is, unless the write fails
C31_NoRepeatedWrite ==
    /\ [][\A c \in Clients :
            (PollerTakes(c)
               /\ QuickKeyOf(Head(fromSrv[c]).items) = prevRecv[c].key)
            => (/\ writes'[c] = writes[c] /\ clipSeq'[c] = clipSeq[c]
                /\ clipItems'[c] = clipItems[c]
                /\ prevRecv'[c].wrote = "skipped")]_vars
    /\ [][\A c \in Clients :
            (PollerTakes(c)
               /\ QuickKeyOf(Head(fromSrv[c]).items) # prevRecv[c].key)
            => \/ /\ prevRecv'[c].wrote = "written"
                  /\ clipItems'[c] = WriteSnapshot(Head(fromSrv[c]).items)
               \/ /\ prevRecv'[c].wrote = "failed"
                  /\ clipItems'[c] = clipItems[c]]_vars

\* the same content came twice and was written once
C31_Witness ==
    /\ prevRecv[1] = [key |-> QuickKeyOf(<< <<97>> >>), wrote |-> "skipped"]
    /\ writes[1] = 1 /\ clipItems[1] = << <<97>> >>


-----------------------------------------------------------------------------
(* Properties of overlapping Sends *)

\* Send of client c has returned nil
SendReturnedNil(c) == Len(oChunks[c]) > 0 /\ oNext[c] = Len(oChunks[c])

C32_BothLost ==
    /\ \A c \in Clients : SendReturnedNil(c) /\ Len(oChunks[c]) = 2
    /\ Cardinality(DOMAIN oRelay.parts) = 1


\* the Snapshots in flight between the goroutines and on the relay
InFlight ==
    UNION {{toUp[c][k] : k \in 1..Len(toUp[c])} : c \in Clients}
      \cup UNION {{fromSrv[c][k] : k \in 1..Len(fromSrv[c])} : c \in Clients}
      \cup ({relaySnap} \ {NoSnapshot})

\* nothing is left to do but Poll emitting what poller will skip
Settled ==
    \A c \in Clients : clipSeq[c] = lastSeq[c] /\ toUp[c] = << >>

\* C33: after one local copy each client calls Send at most once and writes
\* its clipboard at most once, every Snapshot in flight carries the copied
\* content, and once both clients have sent and written nothing starts again
C33_NoEchoLoop ==
    /\ [](\A c \in Clients : sends[c] <= 1 /\ writes[c] <= 1)
    /\ [](\A c \in Clients : \A snap \in InFlight :
            copies = 1 /\ QuickKeyOf(snap.items) = QuickKeyOf(clipItems[snap.origin]))
    /\ [][(Settled /\ \A c \in Clients : sends[c] = 1 /\ writes[c] = 1)
            => (/\ Settled' /\ sends' = sends /\ writes' = writes
                /\ clipItems' = clipItems /\ clipSeq' = clipSeq)]_vars

\* the copy of client 1 went to client 2, came back and the system is at rest
C33_Witness ==
    /\ Settled /\ copies = 1
    /\ \A c \in Clients : sends[c] = 1 /\ writes[c] = 1
    /\ clipItems = [c \in Clients |-> << <<97>>, <<98>> >>]
    /\ relaySnap.origin = 2


\* C34: a part index comes to be held only by a fetch of the index the range
\* over the have-list of this iteration's discover response stands at, for
\* the session tracked since before that response; a change of session leaves
\* no part held; and an index that is held is neither requested again nor
\* given other bytes for as long as it stays held
C34_HeldPartsListed ==
    /\ [][\A j \in DOMAIN current'.parts \ DOMAIN current.parts :
            /\ pPc = "fetch" /\ pK <= Len(meta.have) /\ j = meta.have[pK]
            /\ current.cid # 0 /\ current'.cid = current.cid]_vars
    /\ [][current'.cid # current.cid => current'.parts = EmptyParts]_vars
    /\ [][(pPc = "fetch" /\ pK' # pK /\ pLast'.ev \in FetchEvents) =>
            pLast'.idx \notin DOMAIN current.parts]_vars
    /\ [][\A j \in DOMAIN current.parts \cap DOMAIN current'.parts :
            current'.parts[j] = current.parts[j]]_vars

\* index 0 was stored in an earlier iteration; this iteration's have-list
\* names it again and the range passed over it without a request
C34_Witness ==
    /\ pLast = Ev("skip", 0) /\ pPc = "fetch" /\ pK = 2
    /\ meta.have = <<0, 1>> /\ meta.cid = current.cid
    /\ DOMAIN current.parts = {0} /\ pSrc[0] = current.cid


\* C35: when Send has returned, it returned nil exactly when each of the
\* ceil(len/chunkSize) parts of the body, 0 upward in order, was answered by
\* a 2xx status to one of its POSTs; nil is never returned with fewer
\* acknowledged parts than the body has
C35_SuccessIffAllAcked ==
    /\ sPc = "done" =>
          (sResult = NoErr <=> sAcked = CeilDiv(sLen, chunkSize))
    /\ (sPc = "done" /\ sResult = NoErr) =>
          (sAcked = Len(sChunks) /\ sPosts = sAcked + sFailed)
    /\ sAcked <= CeilDiv(sLen, chunkSize)

\* Send returned nil for a body of three parts after a failed attempt: all
\* three parts were acknowledged
C35_Witness ==
    /\ sPc = "done" /\ sResult = NoErr
    /\ Len(sChunks) = 3 /\ sAcked = 3 /\ sFailed >= 1

\* Send returned an error with part 0 acknowledged and part 1 not
C35_WitnessError ==
    /\ sPc = "done" /\ sResult.kind = "status"
    /\ Len(sChunks) = 3 /\ sAcked = 1

\* Send refused a body over the cap: no part was posted
C35_WitnessTooLarge ==
    /\ sPc = "done" /\ sResult = ErrCap /\ sAcked = 0 /\ sPosts = 0


\* the rows of the data are all there for the height the field states
WholeDib == Len(dData) >= (IF Signed(dField) < 0 THEN -Signed(dField) ELSE Signed(dField))

\* C36: for a negative biHeight the image has the absolute value as its
\* height and row y of the image is row y of the data; for a positive one
\* the height is the value and row y of the image is row height-1-y
C36_SignedHeight ==
    /\ (dPc # "idle" /\ Signed(dField) < 0) =>
         (dPc # "panic" /\ dHeight = -Signed(dField) /\ ~dBottomUp)
    /\ (dPc # "idle" /\ Signed(dField) > 0) =>
         (dPc # "panic" /\ dHeight = Signed(dField) /\ dBottomUp)
    /\ (dPc = "done" /\ WholeDib /\ Signed(dField) < 0) =>
         \A y \in 0..(dHeight - 1) : dImg[y + 1] = dData[y + 1]
    /\ (dPc = "done" /\ WholeDib /\ Signed(dField) > 0) =>
         \A y \in 0..(dHeight - 1) : dImg[y + 1] = dData[dHeight - y]

\* C36 where int is as wide as the field and the field is not the least
\* value: the claim's reading
C36_NarrowInt ==
    (dBuild = WordBits /\ dField # Pow2(WordBits - 1)) => C36_SignedHeight

\* a top-down DIB of two rows converted where int is wider than the field:
\* the height is the unsigned word, rows are taken bottom-up and none is copied
C36_WideInt ==
    /\ dPc = "done" /\ dBuild = 2 * WordBits /\ Signed(dField) = -2
    /\ Len(dData) = 2 /\ dHeight = Pow2(WordBits) - 2 /\ dBottomUp
    /\ \A y \in 1..dHeight : dImg[y] = 0

\* a top-down DIB of two rows converted where int is as wide as the field
C36_TopDown32 ==
    /\ dPc = "done" /\ dBuild = WordBits /\ Signed(dField) = -2
    /\ dHeight = 2 /\ ~dBottomUp /\ dImg = <<1, 2>>

\* a bottom-up DIB of two rows
C36_BottomUp ==
    /\ dPc = "done" /\ dField = 2 /\ dHeight = 2 /\ dBottomUp /\ dImg = <<2, 1>>

====
